---- MODULE Spec2Model ----
(***************************************************************************)
(* Session registry of scepter-server: the SessionManager of               *)
(* components/session_manager.py and the WebSocket handlers of main.py     *)
(* that drive it.                                                          *)
(* Card ledger of a game database: the objective and exploration tables    *)
(* of components/objective_catalog.py and exploration_catalog.py and the   *)
(* routes of routes/cards.py that write them.                              *)
(***************************************************************************)
EXTENDS Integers, Sequences, FiniteSets, TLC

(* ---------------------------------------------------------------------- *)
(* Bounds                                                                  *)
(* ---------------------------------------------------------------------- *)
MaxConns == 2
MaxPlayerIds == 2
\* number of handler invocations followed from the initial state
MaxOps == 5
\* number of requests followed when handlers run as concurrent threads
MaxConcOps == 4
\* number of card requests followed from the initial state
MaxLedgerOps == 3
\* request threads of the card routes, and requests they serve in all
MaxWorkers == 2
MaxLedgerConcOps == 2
\* number of exploration-card requests followed from the initial state
MaxRelicOps == 3
\* number of action-card, planet and attachment requests followed
MaxCardOps == 2
\* number of ledger transactions followed statement by statement
MaxTxOps == 2
\* number of create-game requests followed
MaxCreateOps == 3
\* number of concurrent add-action requests followed
MaxActOps == 3

\* the socket connections the gateway has accepted (request.sid); a session id
\* is never used again once its connection is gone
Conns == 1..MaxConns
PlayerIds == 1..MaxPlayerIds
Workers == 1..MaxWorkers

NoConn == 0
NoPlayer == 0
\* A game name is a sequence of characters; the empty name is what the
\* handlers treat as "no game" (`if not game_name`).
NoGame == <<>>

\* Game names the clients send.  "N!" and "N" differ as session names but
\* sanitise to the same store file.
GameNames == { <<"N">>, <<"N", "!">> }

(* ---------------------------------------------------------------------- *)
(* State                                                                   *)
(* ---------------------------------------------------------------------- *)
VARIABLES
    active_sessions,   \* game_name -> GameSession
    session_to_game,   \* dict session_id -> game_name, in insertion order
    connections,       \* socket connection -> "live" | "gone"
    stores,            \* the store files present in GAMES_DIR (safe names)
    threads,           \* handler threads in flight (concurrent runs only)
    detached,          \* session objects replaced in active_sessions but still held
    ops,               \* number of handlers run so far
    lastOp,            \* the handler that ran last, its calls and returns
    db,                \* the tables of one game's store (committed rows)
    reqs               \* card requests in flight (concurrent runs only)

vars == <<active_sessions, session_to_game, connections, stores, threads, detached, ops, lastOp,
          db, reqs>>

(* ---------------------------------------------------------------------- *)
(* Helpers: python dict with insertion order, str.strip, name sanitising   *)
(* ---------------------------------------------------------------------- *)
EmptyDict == [x \in {} |-> 0]

DictKeys(d) == { d[i].sid : i \in DOMAIN d }

DictGet(d, sid) ==
    IF sid \in DictKeys(d)
    THEN d[CHOOSE i \in DOMAIN d : d[i].sid = sid].game
    ELSE NoGame

\* d[sid] = game : an existing key keeps its position, a new key goes last
DictSet(d, sid, game) ==
    IF sid \in DictKeys(d)
    THEN [i \in DOMAIN d |-> IF d[i].sid = sid THEN [sid |-> sid, game |-> game] ELSE d[i]]
    ELSE Append(d, [sid |-> sid, game |-> game])

DictDelTest(e, sid) == e.sid # sid

DictDel(d, sid) == SelectSeq(d, LAMBDA e : DictDelTest(e, sid))

Remove(f, k) == [x \in (DOMAIN f) \ {k} |-> f[x]]

IsAlnum(ch) == ch \in {"N", "I"}

KeepChar(ch) == IsAlnum(ch) \/ ch \in {" ", "-", "_"}

RECURSIVE LStrip(_)
LStrip(s) == IF s # <<>> /\ Head(s) = " " THEN LStrip(Tail(s)) ELSE s

RECURSIVE RStrip(_)
RStrip(s) == IF s # <<>> /\ s[Len(s)] = " " THEN RStrip(SubSeq(s, 1, Len(s) - 1)) ELSE s

Strip(s) == RStrip(LStrip(s))

\* "".join(c for c in game_name if c.isalnum() or c in (' ', '-', '_')).strip()
SafeGameName(game_name) == Strip(SelectSeq(game_name, KeepChar))

\* os.path.join(GAMES_DIR, f"{safe_game_name}.sqlite3"): one file per safe name
DbPath(game_name) == SafeGameName(game_name)

\* a return value: ok, the game and player returned (remove/stop), and the
\* return point taken, named after what the method logs there
Ret(ok, game, player, why) == [ok |-> ok, game |-> game, player |-> player, why |-> why]

Call(fn, sid, ret) == [fn |-> fn, sid |-> sid, ret |-> ret]

\* what is kept of a handler run: its name and the calls it made; the
\* request's arguments are read off the step itself
Op(op, sid, game, player, calls) == [op |-> op, calls |-> calls]

Result(as, s2g, ret) == [as |-> as, s2g |-> s2g, ret |-> ret]

(* ---------------------------------------------------------------------- *)
(* SessionManager methods, as functions of the registry state              *)
(* ---------------------------------------------------------------------- *)
\* as start_hosting_session, without the check for an active session
start_hosting_session_overwrites(as, s2g, st, game_name, db_path, host_session_id) ==
    IF db_path \notin st
    THEN Result(as, s2g, Ret(FALSE, NoGame, NoPlayer, "database not found"))
    ELSE Result(
        [g \in (DOMAIN as) \cup {game_name} |->
            IF g = game_name
            THEN [db_path |-> db_path,
                  host_session_id |-> host_session_id,
                  connected_players |-> EmptyDict]
            ELSE as[g]],
        DictSet(s2g, host_session_id, game_name),
        Ret(TRUE, NoGame, NoPlayer, "started"))

start_hosting_session(as, s2g, st, game_name, db_path, host_session_id) ==
    IF db_path \notin st
    THEN Result(as, s2g, Ret(FALSE, NoGame, NoPlayer, "database not found"))
    ELSE IF game_name \in DOMAIN as
    THEN Result(as, s2g, Ret(FALSE, NoGame, NoPlayer, "already active"))
    ELSE Result(
        as @@ (game_name :> [db_path |-> db_path,
                             host_session_id |-> host_session_id,
                             connected_players |-> EmptyDict]),
        DictSet(s2g, host_session_id, game_name),
        Ret(TRUE, NoGame, NoPlayer, "started"))

\* as stop_hosting_session, without the removal of the session
stop_hosting_session_keeps_session(as, s2g, host_session_id) ==
    LET game_name == DictGet(s2g, host_session_id) IN
    IF game_name = NoGame
    THEN Result(as, s2g, Ret(FALSE, NoGame, NoPlayer, "none"))
    ELSE Result(
        as,
        IF host_session_id \in DictKeys(s2g) THEN DictDel(s2g, host_session_id) ELSE s2g,
        Ret(TRUE, game_name, NoPlayer, "stopped"))

\* as stop_hosting_session, without the removal of the host's index entry
stop_hosting_session_keeps_index(as, s2g, host_session_id) ==
    LET game_name == DictGet(s2g, host_session_id) IN
    IF game_name = NoGame
    THEN Result(as, s2g, Ret(FALSE, NoGame, NoPlayer, "none"))
    ELSE Result(
        IF game_name \in DOMAIN as THEN Remove(as, game_name) ELSE as,
        s2g,
        Ret(TRUE, game_name, NoPlayer, "stopped"))

stop_hosting_session(as, s2g, host_session_id) ==
    LET game_name == DictGet(s2g, host_session_id) IN
    IF game_name = NoGame
    THEN Result(as, s2g, Ret(FALSE, NoGame, NoPlayer, "none"))
    ELSE Result(
        IF game_name \in DOMAIN as THEN Remove(as, game_name) ELSE as,
        IF host_session_id \in DictKeys(s2g) THEN DictDel(s2g, host_session_id) ELSE s2g,
        Ret(TRUE, game_name, NoPlayer, "stopped"))

\* as join_player_to_session, without the scan for a connected player_id
join_player_to_session_no_scan(as, s2g, game_name, player_id, session_id) ==
    IF game_name \notin DOMAIN as
    THEN Result(as, s2g, Ret(FALSE, NoGame, NoPlayer, "not found"))
    ELSE Result(
        [as EXCEPT ![game_name].connected_players =
            IF session_id \in DOMAIN @
            THEN [@ EXCEPT ![session_id] = player_id]
            ELSE @ @@ (session_id :> player_id)],
        DictSet(s2g, session_id, game_name),
        Ret(TRUE, NoGame, NoPlayer, "joined"))

join_player_to_session(as, s2g, game_name, player_id, session_id) ==
    IF game_name \notin DOMAIN as
    THEN Result(as, s2g, Ret(FALSE, NoGame, NoPlayer, "not found"))
    ELSE LET session == as[game_name] IN
    IF \E conn \in DOMAIN session.connected_players :
            session.connected_players[conn] = player_id
    THEN Result(as, s2g, Ret(FALSE, NoGame, NoPlayer, "already connected"))
    ELSE Result(
        [as EXCEPT ![game_name].connected_players =
            IF session_id \in DOMAIN @
            THEN [@ EXCEPT ![session_id] = player_id]
            ELSE @ @@ (session_id :> player_id)],
        DictSet(s2g, session_id, game_name),
        Ret(TRUE, NoGame, NoPlayer, "joined"))

\* as remove_player_from_session, without the pop of the player connection
remove_player_from_session_keeps_player(as, s2g, session_id) ==
    LET game_name == DictGet(s2g, session_id) IN
    IF game_name = NoGame
    THEN Result(as, s2g, Ret(FALSE, NoGame, NoPlayer, "none"))
    ELSE IF game_name \notin DOMAIN as
            \/ session_id \notin DOMAIN as[game_name].connected_players
    THEN Result(as, s2g, Ret(FALSE, NoGame, NoPlayer, "none"))
    ELSE Result(
        as,
        DictDel(s2g, session_id),
        Ret(TRUE, game_name, as[game_name].connected_players[session_id], "left"))

remove_player_from_session(as, s2g, session_id) ==
    LET game_name == DictGet(s2g, session_id) IN
    IF game_name = NoGame
    THEN Result(as, s2g, Ret(FALSE, NoGame, NoPlayer, "none"))
    ELSE IF game_name \notin DOMAIN as
            \/ session_id \notin DOMAIN as[game_name].connected_players
    THEN Result(as, s2g, Ret(FALSE, NoGame, NoPlayer, "none"))
    ELSE Result(
        [as EXCEPT ![game_name].connected_players = Remove(@, session_id)],
        DictDel(s2g, session_id),
        Ret(TRUE, game_name, as[game_name].connected_players[session_id], "left"))

\* the second loop of cleanup_disconnected_sessions, over sessions_to_remove
RECURSIVE cleanup_loop(_, _, _, _)
cleanup_loop(as, s2g, sessions_to_remove, calls) ==
    IF sessions_to_remove = <<>>
    THEN [as |-> as, s2g |-> s2g, calls |-> calls]
    ELSE
        LET session_id == Head(sessions_to_remove)
            rest == Tail(sessions_to_remove)
            game_name == DictGet(s2g, session_id)
        IN
        IF game_name = NoGame \/ game_name \notin DOMAIN as
        THEN cleanup_loop(as, s2g, rest, calls)
        ELSE IF session_id = as[game_name].host_session_id
        THEN LET r == stop_hosting_session(as, s2g, session_id) IN
             cleanup_loop(r.as, r.s2g, rest,
                          Append(calls, Call("stop_hosting_session", session_id, r.ret)))
        ELSE LET r == remove_player_from_session(as, s2g, session_id) IN
             cleanup_loop(r.as, r.s2g, rest,
                          Append(calls, Call("remove_player_from_session", session_id, r.ret)))

SidOf(e) == e.sid

RECURSIVE MapSid(_)
MapSid(d) == IF d = <<>> THEN <<>> ELSE <<SidOf(Head(d))>> \o MapSid(Tail(d))

cleanup_disconnected_sessions(as, s2g, connected_session_ids) ==
    LET sessions_to_remove ==
            SelectSeq(MapSid(s2g), LAMBDA sid : sid \notin connected_session_ids)
    IN cleanup_loop(as, s2g, sessions_to_remove, <<>>)

(* ---------------------------------------------------------------------- *)
(* The store of one game (components/objective_catalog.py): the players    *)
(* table, playerObjectives, gamePublicObjectives, playerExplorationCards   *)
(* ---------------------------------------------------------------------- *)
\* for candidate in range(5): the slots of one stage
SlotsPerTier == 5

\* Optional[...] = None: no slot, no row, no total
None == -1

PUBLIC_OBJECTIVE_TYPES == {"public_tier1", "public_tier2"}

\* objectiveDefinitions: six stage I objectives (one more than a stage has
\* slots), one stage II objective and one secret objective
Tier1Order == <<"a1", "a2", "a3", "a4", "a5", "a6">>

Tier1Keys == { Tier1Order[i] : i \in DOMAIN Tier1Order }

Tier2Keys == {"b1"}

SecretKeys == {"s1"}

ObjectiveKeys == Tier1Keys \cup Tier2Keys \cup SecretKeys

\* SELECT type, victoryPoints FROM objectiveDefinitions WHERE objectiveKey = ?
get_objective_definition(objective_key) ==
    IF objective_key \in Tier1Keys THEN [type |-> "public_tier1", victoryPoints |-> 1]
    ELSE IF objective_key \in Tier2Keys THEN [type |-> "public_tier2", victoryPoints |-> 2]
    ELSE [type |-> "secret", victoryPoints |-> 1]

\* the store create_game_file leaves: every player of the game in the
\* players table with victoryPoints at its default, no card rows
NewStore ==
    [players |-> [p \in PlayerIds |-> 0],
     playerObjectives |-> {},
     gamePublicObjectives |-> {},
     playerExplorationCards |-> {},
     playerActions |-> {},
     playerPlanets |-> {},
     planetAttachments |-> {}]

\* SELECT ... FROM playerObjectives WHERE playerId = ? AND objectiveKey = ?
Owned(d, player_id, objective_key) ==
    { r \in d.playerObjectives : r.playerId = player_id /\ r.objectiveKey = objective_key }

\* SELECT playerId, isCompleted FROM playerObjectives WHERE objectiveKey = ?
ObjectiveRows(d, objective_key) ==
    { r \in d.playerObjectives : r.objectiveKey = objective_key }

\* SELECT ... FROM gamePublicObjectives WHERE objectiveKey = ?
get_game_public_objective(d, objective_key) ==
    { s \in d.gamePublicObjectives : s.objectiveKey = objective_key }

\* used_indices: SELECT slotIndex FROM gamePublicObjectives WHERE type = ?
UsedIndices(d, objective_type) ==
    { s.slotIndex : s \in { x \in d.gamePublicObjectives : x.type = objective_type } }

\* as ScanSlots, with one candidate more than a stage has slots
RECURSIVE ScanSlots_one_more(_, _)
ScanSlots_one_more(used_indices, candidate) ==
    IF candidate >= SlotsPerTier + 1 THEN None
    ELSE IF candidate \notin used_indices THEN candidate
    ELSE ScanSlots_one_more(used_indices, candidate + 1)

\* as ScanSlots, taking the last free candidate instead of the first
RECURSIVE ScanSlots_last_free(_, _)
ScanSlots_last_free(used_indices, candidate) ==
    IF candidate >= SlotsPerTier THEN None
    ELSE LET later == ScanSlots_last_free(used_indices, candidate + 1) IN
         IF later # None THEN later
         ELSE IF candidate \notin used_indices THEN candidate ELSE None

\* for candidate in range(5): if candidate not in used_indices: slot_index = candidate; break
RECURSIVE ScanSlots(_, _)
ScanSlots(used_indices, candidate) ==
    IF candidate >= SlotsPerTier THEN None
    ELSE IF candidate \notin used_indices THEN candidate
    ELSE ScanSlots(used_indices, candidate + 1)

\* as AddClamped, storing the adjustment instead of the adjusted total
AddClamped_assigns(victoryPoints, adjustment) == adjustment

\* SET victoryPoints = CASE WHEN victoryPoints + ? < 0 THEN 0 ELSE victoryPoints + ? END
AddClamped(victoryPoints, adjustment) ==
    IF victoryPoints + adjustment < 0 THEN 0 ELSE victoryPoints + adjustment

\* SET victoryPoints = CASE WHEN victoryPoints - ? < 0 THEN 0 ELSE victoryPoints - ? END
SubClamped(victoryPoints, delta) ==
    IF victoryPoints - delta < 0 THEN 0 ELSE victoryPoints - delta

\* what a ledger function leaves and returns: the store, the return point
\* (named after the message raised or logged there) and the slot or total
Out(d, why, value) == [db |-> d, why |-> why, value |-> value]

ObjectiveRow(player_id, objective_key, is_completed) ==
    [playerId |-> player_id, objectiveKey |-> objective_key, isCompleted |-> is_completed]

\* as InsertPublic, with a row for the requesting player only
InsertPublic_requester_only(d, player_id, objective_key, objective_type, slot_index) ==
    [d EXCEPT
        !.gamePublicObjectives = @ \cup
            {[objectiveKey |-> objective_key, type |-> objective_type, slotIndex |-> slot_index]},
        !.playerObjectives = @ \cup
            { ObjectiveRow(p, objective_key, FALSE) :
                p \in { q \in {player_id} : Owned(d, q, objective_key) = {} } }]

\* INSERT INTO gamePublicObjectives ...; then for every row of players:
\* INSERT OR IGNORE INTO playerObjectives (playerId, objectiveKey, isCompleted) VALUES (?, ?, 0)
InsertPublic(d, player_id, objective_key, objective_type, slot_index) ==
    [d EXCEPT
        !.gamePublicObjectives = @ \cup
            {[objectiveKey |-> objective_key, type |-> objective_type, slotIndex |-> slot_index]},
        !.playerObjectives = @ \cup
            { ObjectiveRow(p, objective_key, FALSE) :
                p \in { q \in DOMAIN d.players : Owned(d, q, objective_key) = {} } }]

\* as assign_public_objective_to_game, the players' rows written before the
\* slot is looked for
assign_public_objective_to_game_rows_first(d, player_id, objective_key) ==
    LET objective_type == get_objective_definition(objective_key).type
        slot_index == ScanSlots(UsedIndices(d, objective_type), 0)
    IN
    IF objective_key \notin ObjectiveKeys THEN Out(d, "Objective not found", None)
    ELSE IF objective_type \notin PUBLIC_OBJECTIVE_TYPES
    THEN Out(d, "Objective is not a public objective", None)
    ELSE IF get_game_public_objective(d, objective_key) # {}
    THEN Out(d, "Objective already in play", None)
    ELSE IF slot_index = None
    THEN Out([d EXCEPT !.playerObjectives = @ \cup
                    { ObjectiveRow(p, objective_key, FALSE) : p \in DOMAIN d.players }],
             "All Stage Objectives are in Play", None)
    ELSE Out(InsertPublic(d, player_id, objective_key, objective_type, slot_index),
             "assigned", slot_index)

assign_public_objective_to_game(d, player_id, objective_key) ==
    LET objective_type == get_objective_definition(objective_key).type
        slot_index == ScanSlots(UsedIndices(d, objective_type), 0)
    IN
    IF objective_key \notin ObjectiveKeys THEN Out(d, "Objective not found", None)
    ELSE IF objective_type \notin PUBLIC_OBJECTIVE_TYPES
    THEN Out(d, "Objective is not a public objective", None)
    ELSE IF get_game_public_objective(d, objective_key) # {}
    THEN Out(d, "Objective already in play", None)
    ELSE IF slot_index = None
    THEN Out(d, "All Stage Objectives are in Play", None)
    ELSE Out(InsertPublic(d, player_id, objective_key, objective_type, slot_index),
             "assigned", slot_index)

\* as remove_public_objective_from_game, deleting the slot row and leaving
\* the players' rows
remove_public_objective_from_game_keeps_rows(d, objective_key) ==
    IF objective_key \notin ObjectiveKeys
       \/ get_objective_definition(objective_key).type \notin PUBLIC_OBJECTIVE_TYPES
    THEN Out(d, "not public", None)
    ELSE IF get_game_public_objective(d, objective_key) = {}
    THEN Out(d, "not in play", None)
    ELSE Out([d EXCEPT
                !.gamePublicObjectives = @ \ get_game_public_objective(d, objective_key)],
             "removed",
             (CHOOSE s \in get_game_public_objective(d, objective_key) : TRUE).slotIndex)

\* The rows fetched at line 458 are sqlite3.Row objects (database.py sets
\* row_factory); sqlite3.Row has no method get, so `row.get('isCompleted', 0)`
\* at line 467 raises AttributeError on the first row.  The exception is no
\* sqlite3.Error: get_db_connection closes the connection, which drops the
\* open transaction, and the exception leaves the function.  The deletes are
\* reached only when no player holds a row for the objective.
remove_public_objective_from_game(d, objective_key) ==
    IF objective_key \notin ObjectiveKeys
       \/ get_objective_definition(objective_key).type \notin PUBLIC_OBJECTIVE_TYPES
    THEN Out(d, "not public", None)
    ELSE IF get_game_public_objective(d, objective_key) = {}
    THEN Out(d, "not in play", None)
    ELSE IF ObjectiveRows(d, objective_key) # {}
    THEN Out(d, "AttributeError", None)
    ELSE Out([d EXCEPT
                !.playerObjectives = @ \ ObjectiveRows(d, objective_key),
                !.gamePublicObjectives = @ \ get_game_public_objective(d, objective_key)],
             "removed",
             (CHOOSE s \in get_game_public_objective(d, objective_key) : TRUE).slotIndex)

add_player_objective(d, player_id, objective_key) ==
    IF objective_key \notin ObjectiveKeys THEN Out(d, "Objective not found", None)
    ELSE IF get_objective_definition(objective_key).type \in PUBLIC_OBJECTIVE_TYPES
    THEN IF get_game_public_objective(d, objective_key) # {}
         THEN Out(d, "Objective already in play", None)
         ELSE assign_public_objective_to_game(d, player_id, objective_key)
    ELSE IF Owned(d, player_id, objective_key) # {}
    THEN Out(d, "Objective already assigned", None)
    ELSE Out([d EXCEPT !.playerObjectives = @ \cup {ObjectiveRow(player_id, objective_key, FALSE)}],
             "added", None)

\* SELECT victoryPoints FROM players WHERE playerId = ?
TotalOf(d, player_id) ==
    IF player_id \in DOMAIN d.players THEN d.players[player_id] ELSE 0

\* as update_player_objective_state, without the early return on an equal flag
update_player_objective_state_always_adjusts(d, player_id, objective_key, is_completed) ==
    LET owned == Owned(d, player_id, objective_key)
        delta == get_objective_definition(objective_key).victoryPoints
        adjustment == IF is_completed THEN delta ELSE 0 - delta
        total_points == AddClamped(TotalOf(d, player_id), adjustment)
    IN
    IF objective_key \notin ObjectiveKeys THEN Out(d, "Objective not found", None)
    ELSE IF owned = {} THEN Out(d, "not assigned", None)
    ELSE Out([d EXCEPT
                !.playerObjectives = (@ \ owned) \cup
                    {ObjectiveRow(player_id, objective_key, is_completed)},
                !.players[player_id] = total_points],
             "updated", total_points)

\* as update_player_objective_state, adding the points on either change
update_player_objective_state_adds(d, player_id, objective_key, is_completed) ==
    LET owned == Owned(d, player_id, objective_key)
        delta == get_objective_definition(objective_key).victoryPoints
        total_points == AddClamped(TotalOf(d, player_id), delta)
    IN
    IF objective_key \notin ObjectiveKeys THEN Out(d, "Objective not found", None)
    ELSE IF owned = {} THEN Out(d, "not assigned", None)
    ELSE IF (CHOOSE r \in owned : TRUE).isCompleted = is_completed
    THEN Out(d, "unchanged", TotalOf(d, player_id))
    ELSE Out([d EXCEPT
                !.playerObjectives = (@ \ owned) \cup
                    {ObjectiveRow(player_id, objective_key, is_completed)},
                !.players[player_id] = total_points],
             "updated", total_points)

update_player_objective_state(d, player_id, objective_key, is_completed) ==
    LET owned == Owned(d, player_id, objective_key)
        delta == get_objective_definition(objective_key).victoryPoints
        adjustment == IF is_completed THEN delta ELSE 0 - delta
        total_points == AddClamped(TotalOf(d, player_id), adjustment)
    IN
    IF objective_key \notin ObjectiveKeys THEN Out(d, "Objective not found", None)
    ELSE IF owned = {} THEN Out(d, "not assigned", None)
    ELSE IF (CHOOSE r \in owned : TRUE).isCompleted = is_completed
    THEN Out(d, "unchanged", TotalOf(d, player_id))
    ELSE Out([d EXCEPT
                !.playerObjectives = (@ \ owned) \cup
                    {ObjectiveRow(player_id, objective_key, is_completed)},
                !.players[player_id] = total_points],
             "updated", total_points)

\* as remove_player_objective, the points of a completed objective staying
\* in the player's total
remove_player_objective_keeps_points(d, player_id, objective_key) ==
    LET owned == Owned(d, player_id, objective_key)
        definition == objective_key \in ObjectiveKeys
        objective_type == IF definition THEN get_objective_definition(objective_key).type ELSE ""
    IN
    IF objective_type \in PUBLIC_OBJECTIVE_TYPES
    THEN IF owned = {} THEN Out(d, "not assigned", None)
         ELSE LET removal == remove_public_objective_from_game(d, objective_key) IN
              IF removal.why = "removed"
              THEN Out(removal.db, "removed from game", TotalOf(removal.db, player_id))
              ELSE removal
    ELSE IF owned = {} THEN Out(d, "not assigned", None)
    ELSE LET deleted == [d EXCEPT !.playerObjectives = @ \ owned]
         IN Out(deleted, "removed", TotalOf(deleted, player_id))

remove_player_objective(d, player_id, objective_key) ==
    LET owned == Owned(d, player_id, objective_key)
        definition == objective_key \in ObjectiveKeys
        objective_type == IF definition THEN get_objective_definition(objective_key).type ELSE ""
    IN
    IF objective_type \in PUBLIC_OBJECTIVE_TYPES
    THEN IF owned = {} THEN Out(d, "not assigned", None)
         ELSE LET removal == remove_public_objective_from_game(d, objective_key) IN
              IF removal.why = "removed"
              THEN Out(removal.db, "removed from game", TotalOf(removal.db, player_id))
              ELSE removal
    ELSE IF owned = {} THEN Out(d, "not assigned", None)
    ELSE LET was_completed == (CHOOSE r \in owned : TRUE).isCompleted
             deleted == [d EXCEPT !.playerObjectives = @ \ owned]
             after == IF was_completed /\ definition
                      THEN [deleted EXCEPT !.players[player_id] =
                                SubClamped(@, get_objective_definition(objective_key).victoryPoints)]
                      ELSE deleted
         IN Out(after, "removed", TotalOf(after, player_id))

\* the store after the first n stage I objectives have been revealed
RECURSIVE Reveal(_, _)
Reveal(d, n) ==
    IF n = 0 THEN d
    ELSE assign_public_objective_to_game(Reveal(d, n - 1), 1, Tier1Order[n]).db

(* ---------------------------------------------------------------------- *)
(* Initial state                                                           *)
(* ---------------------------------------------------------------------- *)
\* a handler thread: where it stands, the request it serves, the session
\* object it holds (named by the host that created it) and its last result
IdleThread == [pc |-> "idle", op |-> "none", game |-> NoGame, player |-> NoPlayer,
               held |-> NoConn, ok |-> FALSE]

\* a request thread of the card routes: where it stands, its request, and
\* what it has read inside its transaction
IdleReq == [pc |-> "idle", op |-> "none", player |-> NoPlayer, key |-> "", flag |-> FALSE,
            seen |-> None]

Init ==
    /\ active_sessions = EmptyDict
    /\ session_to_game = <<>>
    /\ connections = [c \in Conns |-> "live"]
    /\ stores = {}
    /\ ops = 0
    /\ threads = [c \in Conns |-> IdleThread]
    /\ detached = EmptyDict
    /\ lastOp = Op("init", NoConn, NoGame, NoPlayer, <<>>)
    /\ db = NewStore
    /\ reqs = [w \in Workers |-> IdleReq]

(* ---------------------------------------------------------------------- *)
(* Handlers of main.py, each run to completion                             *)
(* ---------------------------------------------------------------------- *)
\* POST /api/create-game: creates the store file unless it exists
create_game(game_name) ==
    LET safe == SafeGameName(Strip(game_name)) IN
    /\ ops < MaxOps
    /\ ops' = ops + 1
    /\ stores' = IF safe \in stores THEN stores ELSE stores \cup {safe}
    /\ lastOp' = Op("create_game", NoConn, game_name, NoPlayer,
                    <<Call("create_game_file", NoConn, Ret(safe \notin stores, NoGame, NoPlayer,
                             IF safe \in stores THEN "already exists" ELSE "created"))>>)
    /\ UNCHANGED <<active_sessions, session_to_game, connections, threads, detached, db, reqs>>

handle_disconnect(sid) ==
    /\ ops < MaxOps
    /\ ops' = ops + 1
    /\ connections[sid] = "live"
    /\ connections' = [connections EXCEPT ![sid] = "gone"]
    /\ IF sid \in DictKeys(session_to_game)
       THEN LET game_name == DictGet(session_to_game, sid) IN
            IF game_name \in DOMAIN active_sessions
               /\ sid = active_sessions[game_name].host_session_id
            THEN LET r == stop_hosting_session(active_sessions, session_to_game, sid) IN
                 /\ active_sessions' = r.as
                 /\ session_to_game' = r.s2g
                 /\ lastOp' = Op("disconnect", sid, NoGame, NoPlayer,
                                 <<Call("stop_hosting_session", sid, r.ret)>>)
            ELSE LET r == remove_player_from_session(active_sessions, session_to_game, sid) IN
                 /\ active_sessions' = r.as
                 /\ session_to_game' = r.s2g
                 /\ lastOp' = Op("disconnect", sid, NoGame, NoPlayer,
                                 <<Call("remove_player_from_session", sid, r.ret)>>)
       ELSE /\ lastOp' = Op("disconnect", sid, NoGame, NoPlayer, <<>>)
            /\ UNCHANGED <<active_sessions, session_to_game>>
    /\ UNCHANGED <<stores, threads, detached, db, reqs>>

handle_host_game(sid, game_name) ==
    /\ ops < MaxOps
    /\ ops' = ops + 1
    /\ connections[sid] = "live"
    /\ IF game_name = NoGame
       THEN /\ lastOp' = Op("host_game", sid, game_name, NoPlayer, <<>>)
            /\ UNCHANGED <<active_sessions, session_to_game>>
       ELSE LET r == start_hosting_session(active_sessions, session_to_game, stores,
                                           game_name, DbPath(game_name), sid) IN
            /\ active_sessions' = r.as
            /\ session_to_game' = r.s2g
            /\ lastOp' = Op("host_game", sid, game_name, NoPlayer,
                            <<Call("start_hosting_session", sid, r.ret)>>)
    /\ UNCHANGED <<connections, stores, threads, detached, db, reqs>>

handle_join_game(sid, game_name, player_id) ==
    /\ ops < MaxOps
    /\ ops' = ops + 1
    /\ connections[sid] = "live"
    /\ IF game_name = NoGame \/ player_id = NoPlayer
       THEN /\ lastOp' = Op("join_game", sid, game_name, player_id, <<>>)
            /\ UNCHANGED <<active_sessions, session_to_game>>
       ELSE LET r == join_player_to_session(active_sessions, session_to_game,
                                            game_name, player_id, sid) IN
            /\ active_sessions' = r.as
            /\ session_to_game' = r.s2g
            /\ lastOp' = Op("join_game", sid, game_name, player_id,
                            <<Call("join_player_to_session", sid, r.ret)>>)
    /\ UNCHANGED <<connections, stores, threads, detached, db, reqs>>

handle_leave_game(sid) ==
    /\ ops < MaxOps
    /\ ops' = ops + 1
    /\ connections[sid] = "live"
    /\ LET r == remove_player_from_session(active_sessions, session_to_game, sid) IN
       /\ active_sessions' = r.as
       /\ session_to_game' = r.s2g
       /\ lastOp' = Op("leave_game", sid, NoGame, NoPlayer,
                       <<Call("remove_player_from_session", sid, r.ret)>>)
    /\ UNCHANGED <<connections, stores, threads, detached, db, reqs>>

\* reconcile: SessionManager.cleanup_disconnected_sessions with the set of
\* connections the gateway reports as connected
reconcile(connected_session_ids) ==
    LET r == cleanup_disconnected_sessions(active_sessions, session_to_game,
                                           connected_session_ids) IN
    /\ ops < MaxOps
    /\ ops' = ops + 1
    /\ active_sessions' = r.as
    /\ session_to_game' = r.s2g
    /\ lastOp' = Op("reconcile", NoConn, NoGame, NoPlayer, r.calls)
    /\ UNCHANGED <<connections, stores, threads, detached, db, reqs>>

Next ==
    \/ \E g \in GameNames : create_game(g)
    \/ \E c \in Conns : handle_disconnect(c)
    \/ \E c \in Conns, g \in GameNames \cup {NoGame} : handle_host_game(c, g)
    \/ \E c \in Conns, g \in GameNames, p \in PlayerIds : handle_join_game(c, g, p)
    \/ \E c \in Conns : handle_leave_game(c)
    \/ \E S \in SUBSET Conns : reconcile(S)

Spec == Init /\ [][Next]_vars

(* ---------------------------------------------------------------------- *)
(* Handlers run as concurrent threads.  SessionManager takes no lock, so   *)
(* the statements of start_hosting_session and join_player_to_session of   *)
(* different handler threads interleave.                                   *)
(* ---------------------------------------------------------------------- *)
Idle(sid) == connections[sid] = "live" /\ threads[sid].pc = "idle"

Return(sid, fn, ok, why) ==
    /\ threads' = [threads EXCEPT ![sid].pc = "idle", ![sid].ok = ok, ![sid].held = NoConn]
    /\ lastOp' = Op(threads[sid].op, sid, threads[sid].game, threads[sid].player,
                    <<Call(fn, sid, Ret(ok, NoGame, NoPlayer, why))>>)

Goto(sid, label) ==
    /\ threads' = [threads EXCEPT ![sid].pc = label]
    /\ UNCHANGED lastOp

\* handle_host_game is entered
host_begin(sid, game_name) ==
    /\ ops < MaxConcOps
    /\ ops' = ops + 1
    /\ Idle(sid)
    /\ threads' = [threads EXCEPT ![sid] =
            [pc |-> "host_exists", op |-> "host_game", game |-> game_name,
             player |-> NoPlayer, held |-> NoConn, ok |-> FALSE]]
    /\ UNCHANGED <<active_sessions, session_to_game, connections, stores, detached, lastOp, db, reqs>>

\* if not os.path.exists(db_path): return False
host_exists(sid) ==
    /\ threads[sid].pc = "host_exists"
    /\ IF DbPath(threads[sid].game) \notin stores
       THEN Return(sid, "start_hosting_session", FALSE, "database not found")
       ELSE Goto(sid, "host_active")
    /\ UNCHANGED <<active_sessions, session_to_game, connections, stores, detached, ops, db, reqs>>

\* if game_name in self.active_sessions: return False
host_active(sid) ==
    /\ threads[sid].pc = "host_active"
    /\ IF threads[sid].game \in DOMAIN active_sessions
       THEN Return(sid, "start_hosting_session", FALSE, "already active")
       ELSE Goto(sid, "host_put")
    /\ UNCHANGED <<active_sessions, session_to_game, connections, stores, detached, ops, db, reqs>>

\* session = GameSession(...); self.active_sessions[game_name] = session
host_put(sid) ==
    LET g == threads[sid].game
        session == [db_path |-> DbPath(g), host_session_id |-> sid,
                    connected_players |-> EmptyDict]
    IN
    /\ threads[sid].pc = "host_put"
    /\ IF g \in DOMAIN active_sessions
       THEN /\ active_sessions' = [active_sessions EXCEPT ![g] = session]
            /\ detached' = detached @@
                    (<<g, active_sessions[g].host_session_id>> :> active_sessions[g].connected_players)
       ELSE /\ active_sessions' = active_sessions @@ (g :> session)
            /\ UNCHANGED detached
    /\ Goto(sid, "host_index")
    /\ UNCHANGED <<session_to_game, connections, stores, ops, db, reqs>>

\* self.session_to_game[host_session_id] = game_name; return True
host_index(sid) ==
    /\ threads[sid].pc = "host_index"
    /\ session_to_game' = DictSet(session_to_game, sid, threads[sid].game)
    /\ Return(sid, "start_hosting_session", TRUE, "started")
    /\ UNCHANGED <<active_sessions, connections, stores, detached, ops, db, reqs>>

\* handle_join_game is entered
join_begin(sid, game_name, player_id) ==
    /\ ops < MaxConcOps
    /\ ops' = ops + 1
    /\ Idle(sid)
    /\ threads' = [threads EXCEPT ![sid] =
            [pc |-> "join_get", op |-> "join_game", game |-> game_name,
             player |-> player_id, held |-> NoConn, ok |-> FALSE]]
    /\ UNCHANGED <<active_sessions, session_to_game, connections, stores, detached, lastOp, db, reqs>>

\* session = self.active_sessions.get(game_name); if not session: return False
join_get(sid) ==
    /\ threads[sid].pc = "join_get"
    /\ IF threads[sid].game \notin DOMAIN active_sessions
       THEN Return(sid, "join_player_to_session", FALSE, "not found")
       ELSE /\ threads' = [threads EXCEPT ![sid].pc = "join_scan",
                    ![sid].held = active_sessions[threads[sid].game].host_session_id]
            /\ UNCHANGED lastOp
    /\ UNCHANGED <<active_sessions, session_to_game, connections, stores, detached, ops, db, reqs>>

\* the session object a thread holds is the active one or a replaced one
HeldIsActive(sid) ==
    /\ threads[sid].game \in DOMAIN active_sessions
    /\ active_sessions[threads[sid].game].host_session_id = threads[sid].held

HeldPlayers(sid) ==
    IF HeldIsActive(sid)
    THEN active_sessions[threads[sid].game].connected_players
    ELSE detached[<<threads[sid].game, threads[sid].held>>]

\* for conn in session.connected_players.values(): if conn.player_id == player_id: return False
join_scan(sid) ==
    /\ threads[sid].pc = "join_scan"
    /\ IF \E conn \in DOMAIN HeldPlayers(sid) : HeldPlayers(sid)[conn] = threads[sid].player
       THEN Return(sid, "join_player_to_session", FALSE, "already connected")
       ELSE Goto(sid, "join_put")
    /\ UNCHANGED <<active_sessions, session_to_game, connections, stores, detached, ops, db, reqs>>

\* session.connected_players[session_id] = connection
join_put(sid) ==
    LET g == threads[sid].game
        players == HeldPlayers(sid)
        written == [d \in (DOMAIN players) \cup {sid} |->
                        IF d = sid THEN threads[sid].player ELSE players[d]]
    IN
    /\ threads[sid].pc = "join_put"
    /\ IF HeldIsActive(sid)
       THEN /\ active_sessions' = [active_sessions EXCEPT ![g].connected_players = written]
            /\ UNCHANGED detached
       ELSE /\ detached' = [detached EXCEPT ![<<g, threads[sid].held>>] = written]
            /\ UNCHANGED active_sessions
    /\ Goto(sid, "join_index")
    /\ UNCHANGED <<session_to_game, connections, stores, ops, db, reqs>>

\* self.session_to_game[session_id] = game_name; return True
join_index(sid) ==
    /\ threads[sid].pc = "join_index"
    /\ session_to_game' = DictSet(session_to_game, sid, threads[sid].game)
    /\ Return(sid, "join_player_to_session", TRUE, "joined")
    /\ UNCHANGED <<active_sessions, connections, stores, detached, ops, db, reqs>>

NextConc ==
    \/ \E g \in GameNames : ops < MaxConcOps /\ create_game(g)
    \/ \E c \in Conns, g \in GameNames : host_begin(c, g)
    \/ \E c \in Conns : host_exists(c)
    \/ \E c \in Conns : host_active(c)
    \/ \E c \in Conns : host_put(c)
    \/ \E c \in Conns : host_index(c)
    \/ \E c \in Conns, g \in GameNames, p \in PlayerIds : join_begin(c, g, p)
    \/ \E c \in Conns : join_get(c)
    \/ \E c \in Conns : join_scan(c)
    \/ \E c \in Conns : join_put(c)
    \/ \E c \in Conns : join_index(c)

SpecConc == Init /\ [][NextConc]_vars

(* ---------------------------------------------------------------------- *)
(* Card routes of routes/cards.py on one game's store, each request run to *)
(* completion                                                              *)
(* ---------------------------------------------------------------------- *)
sessionVars == <<active_sessions, session_to_game, connections, stores, threads, detached>>

\* what is kept of a card request: the route, its arguments, the player's
\* total before it ran, the return point taken and the slot or total returned
CardOp(op, player_id, objective_key, is_completed, before, out) ==
    [op |-> op, player |-> player_id, key |-> objective_key, flag |-> is_completed,
     before |-> before, why |-> out.why, value |-> out.value]

\* stage I objectives already revealed when the requests followed here start
RevealedAtStart == {0, SlotsPerTier - 1}

\* no session is hosted and no request has been served
InitRegistry ==
    /\ active_sessions = EmptyDict
    /\ session_to_game = <<>>
    /\ connections = [c \in Conns |-> "live"]
    /\ stores = {}
    /\ ops = 0
    /\ threads = [c \in Conns |-> IdleThread]
    /\ detached = EmptyDict
    /\ lastOp = Op("init", NoConn, NoGame, NoPlayer, <<>>)
    /\ reqs = [w \in Workers |-> IdleReq]

InitLedger ==
    /\ InitRegistry
    /\ db \in { Reveal(NewStore, n) : n \in RevealedAtStart }

\* POST objectives: add_player_objective of routes/cards.py
route_add_player_objective(player_id, objective_key) ==
    LET out == add_player_objective(db, player_id, objective_key) IN
    /\ ops < MaxLedgerOps
    /\ ops' = ops + 1
    /\ db' = out.db
    /\ lastOp' = CardOp("add_player_objective", player_id, objective_key, FALSE,
                        TotalOf(db, player_id), out)
    /\ UNCHANGED <<sessionVars, reqs>>

\* PATCH objectives: update_player_objective of routes/cards.py
route_update_player_objective(player_id, objective_key, is_completed) ==
    LET out == update_player_objective_state(db, player_id, objective_key, is_completed) IN
    /\ ops < MaxLedgerOps
    /\ ops' = ops + 1
    /\ db' = out.db
    /\ lastOp' = CardOp("update_player_objective", player_id, objective_key, is_completed,
                        TotalOf(db, player_id), out)
    /\ UNCHANGED <<sessionVars, reqs>>

\* DELETE objectives: remove_player_objective of routes/cards.py
route_remove_player_objective(player_id, objective_key) ==
    LET out == remove_player_objective(db, player_id, objective_key) IN
    /\ ops < MaxLedgerOps
    /\ ops' = ops + 1
    /\ db' = out.db
    /\ lastOp' = CardOp("remove_player_objective", player_id, objective_key, FALSE,
                        TotalOf(db, player_id), out)
    /\ UNCHANGED <<sessionVars, reqs>>

NextLedger ==
    \/ \E p \in PlayerIds, k \in ObjectiveKeys : route_add_player_objective(p, k)
    \/ \E p \in PlayerIds, k \in ObjectiveKeys, v \in BOOLEAN :
            route_update_player_objective(p, k, v)
    \/ \E p \in PlayerIds, k \in ObjectiveKeys : route_remove_player_objective(p, k)

SpecLedger == InitLedger /\ [][NextLedger]_vars

\* the rows of the store are well-formed: one row per player and objective
\* (idx_player_objectives_unique), one row per objective in play
StoreOK ==
    /\ DOMAIN db.players = PlayerIds
    /\ \A r, s \in db.playerObjectives :
          r.playerId = s.playerId /\ r.objectiveKey = s.objectiveKey => r = s
    /\ \A r, s \in db.gamePublicObjectives : r.objectiveKey = s.objectiveKey => r = s

(* ---------------------------------------------------------------------- *)
(* Card requests served by concurrent threads.  A ledger function opens    *)
(* its own connection and runs BEGIN IMMEDIATE before its first SELECT:    *)
(* the store admits one such transaction at a time, a second one waits     *)
(* (sqlite3.connect's timeout) and fails as "database is locked" if the    *)
(* wait runs out.  Rows written become visible to others at the commit.    *)
(* ---------------------------------------------------------------------- *)
InTx(r) == r.pc \in {"read", "write"}

\* as CanBegin, with a BEGIN that takes no write lock
CanBegin_deferred(rq, w) == TRUE

\* cursor.execute('BEGIN IMMEDIATE') returns: no other transaction is open
CanBegin(rq, w) == \A v \in (DOMAIN rq) \ {w} : ~InTx(rq[v])

\* a request is served by a thread of its own; which one is immaterial, so
\* the first thread that serves no request takes it
FreeWorker(w) ==
    /\ reqs[w].pc = "idle"
    /\ \A v \in DOMAIN reqs : v < w => reqs[v].pc # "idle"

ReqReturn(w, out, before) ==
    /\ reqs' = [reqs EXCEPT ![w] = IdleReq]
    /\ lastOp' = CardOp(reqs[w].op, reqs[w].player, reqs[w].key, reqs[w].flag, before, out)

ReqGoto(w, label, seen) ==
    /\ reqs' = [reqs EXCEPT ![w].pc = label, ![w].seen = seen]
    /\ UNCHANGED lastOp

\* add_player_objective is entered with a public objective: the checks made
\* before the transaction (objective_catalog.py 572-581, 363-369)
req_begin_add(w, player_id, objective_key) ==
    /\ ops < MaxLedgerConcOps
    /\ ops' = ops + 1
    /\ FreeWorker(w)
    /\ get_objective_definition(objective_key).type \in PUBLIC_OBJECTIVE_TYPES
    /\ IF get_game_public_objective(db, objective_key) # {}
       THEN /\ reqs' = reqs
            /\ lastOp' = CardOp("add_player_objective", player_id, objective_key, FALSE,
                                TotalOf(db, player_id), Out(db, "Objective already in play", None))
       ELSE /\ reqs' = [reqs EXCEPT ![w] =
                    [pc |-> "tx", op |-> "add_player_objective", player |-> player_id,
                     key |-> objective_key, flag |-> FALSE, seen |-> None]]
            /\ UNCHANGED lastOp
    /\ UNCHANGED <<sessionVars, db>>

\* update_player_objective_state is entered (objective_catalog.py 623-633)
req_begin_update(w, player_id, objective_key, is_completed) ==
    /\ ops < MaxLedgerConcOps
    /\ ops' = ops + 1
    /\ FreeWorker(w)
    /\ reqs' = [reqs EXCEPT ![w] =
            [pc |-> "tx", op |-> "update_player_objective", player |-> player_id,
             key |-> objective_key, flag |-> is_completed, seen |-> None]]
    /\ UNCHANGED <<sessionVars, db, lastOp>>

\* cursor.execute('BEGIN IMMEDIATE')
req_tx(w) ==
    /\ reqs[w].pc = "tx"
    /\ CanBegin(reqs, w)
    /\ ReqGoto(w, "read", None)
    /\ UNCHANGED <<sessionVars, db, ops>>

\* the wait for the write lock runs out: sqlite3.OperationalError, which
\* get_db_connection turns into DatabaseError ("Unable to add / update objective")
req_busy(w) ==
    /\ reqs[w].pc = "tx"
    /\ ~CanBegin(reqs, w)
    /\ ReqReturn(w, Out(db, "database is locked", None), TotalOf(db, reqs[w].player))
    /\ UNCHANGED <<sessionVars, db, ops>>

\* the SELECTs of the transaction and the returns that follow them
req_read(w) ==
    LET r == reqs[w]
        objective_type == get_objective_definition(r.key).type
        slot_index == ScanSlots(UsedIndices(db, objective_type), 0)
        owned == Owned(db, r.player, r.key)
    IN
    /\ r.pc = "read"
    /\ IF r.op = "add_player_objective"
       THEN IF get_game_public_objective(db, r.key) # {}
            THEN ReqReturn(w, Out(db, "Objective already in play", None), TotalOf(db, r.player))
            ELSE IF slot_index = None
            THEN ReqReturn(w, Out(db, "All Stage Objectives are in Play", None),
                           TotalOf(db, r.player))
            ELSE ReqGoto(w, "write", slot_index)
       ELSE IF owned = {}
            THEN ReqReturn(w, Out(db, "not assigned", None), TotalOf(db, r.player))
            ELSE IF (CHOOSE x \in owned : TRUE).isCompleted = r.flag
            THEN ReqReturn(w, Out(db, "unchanged", TotalOf(db, r.player)), TotalOf(db, r.player))
            ELSE ReqGoto(w, "write", None)
    /\ UNCHANGED <<sessionVars, db, ops>>

\* the INSERTs or UPDATEs of the transaction and connection.commit().  An
\* INSERT that meets a row with the same objectiveKey or the same
\* (type, slotIndex) fails on the table's unique indexes: the transaction is
\* rolled back and the function raises "Unable to add objective".
req_write(w) ==
    LET r == reqs[w]
        objective_type == get_objective_definition(r.key).type
        delta == get_objective_definition(r.key).victoryPoints
        adjustment == IF r.flag THEN delta ELSE 0 - delta
        total_points == AddClamped(TotalOf(db, r.player), adjustment)
        owned == Owned(db, r.player, r.key)
    IN
    /\ r.pc = "write"
    /\ IF r.op = "add_player_objective"
       THEN IF get_game_public_objective(db, r.key) # {}
               \/ r.seen \in UsedIndices(db, objective_type)
            THEN /\ db' = db
                 /\ ReqReturn(w, Out(db, "Unable to add objective", None), TotalOf(db, r.player))
            ELSE /\ db' = InsertPublic(db, r.player, r.key, objective_type, r.seen)
                 /\ ReqReturn(w, Out(db, "assigned", r.seen), TotalOf(db, r.player))
       ELSE /\ db' = [db EXCEPT
                        !.playerObjectives = (@ \ owned) \cup
                            { ObjectiveRow(r.player, r.key, r.flag) : x \in owned },
                        !.players[r.player] = total_points]
            /\ ReqReturn(w, Out(db, "updated", total_points), TotalOf(db, r.player))
    /\ UNCHANGED <<sessionVars, ops>>

\* the objectives the concurrent requests name: reveals of the two stage I
\* objectives not yet in play, completion flags of one objective in play and
\* of one that is not
RevealKeys == {"a5", "a6"}

FlagKeys == {"a1", "a5"}

\* four of the five stage I slots are taken when the concurrent requests start
InitLedgerConc ==
    /\ InitRegistry
    /\ db = Reveal(NewStore, SlotsPerTier - 1)

NextLedgerConc ==
    \/ \E w \in Workers, p \in PlayerIds, k \in RevealKeys : req_begin_add(w, p, k)
    \/ \E w \in Workers, p \in PlayerIds, k \in FlagKeys, v \in BOOLEAN :
            req_begin_update(w, p, k, v)
    \/ \E w \in Workers : req_tx(w)
    \/ \E w \in Workers : req_busy(w)
    \/ \E w \in Workers : req_read(w)
    \/ \E w \in Workers : req_write(w)

SpecLedgerConc == InitLedgerConc /\ [][NextLedgerConc]_vars

(* ---------------------------------------------------------------------- *)
(* Exploration cards and restore_relic_from_fragments (routes/cards.py).   *)
(* The route validates the fragments and picks the relic with plain        *)
(* queries, then opens one connection on which it deletes the fragments    *)
(* and inserts the relic before it commits.  Other requests run between    *)
(* its queries; the rows it writes become visible at the commit.           *)
(* ---------------------------------------------------------------------- *)
\* relic fragments of the catalog: three cultural, one hazardous, one frontier
FragmentKeys == {"f1", "f2", "f3", "h1", "x1"}

RelicKeys == {"r1", "r2"}

\* cards that attach to a planet (one cultural, one hazardous) and a cultural
\* card that is played at once
AttachKeys == {"t1", "t2"}

ExploreActionKeys == {"e1"}

ExplorationKeys == FragmentKeys \cup RelicKeys \cup AttachKeys \cup ExploreActionKeys

\* SELECT type, subtype FROM explorationDefinitions WHERE explorationKey = ?
get_exploration_definition(exploration_key) ==
    IF exploration_key \in {"f1", "f2", "f3"}
    THEN [type |-> "cultural", subtype |-> "relic_fragment"]
    ELSE IF exploration_key = "h1"
    THEN [type |-> "hazardous", subtype |-> "relic_fragment"]
    ELSE IF exploration_key = "x1"
    THEN [type |-> "frontier", subtype |-> "relic_fragment"]
    ELSE IF exploration_key = "t1" THEN [type |-> "cultural", subtype |-> "attach"]
    ELSE IF exploration_key = "t2" THEN [type |-> "hazardous", subtype |-> "attach"]
    ELSE IF exploration_key = "e1" THEN [type |-> "cultural", subtype |-> "action"]
    ELSE [type |-> "relic", subtype |-> "relic"]

ExplorationRow(player_id, exploration_key) ==
    [playerId |-> player_id, explorationKey |-> exploration_key, isExhausted |-> FALSE]

SeqRange(s) == { s[i] : i \in DOMAIN s }

\* rows of the player among the keys named: WHERE playerId = ? AND explorationKey IN (...)
OwnedCards(d, player_id, keys) ==
    { r \in d.playerExplorationCards : r.playerId = player_id /\ r.explorationKey \in keys }

\* a key the catalog does not have returns None as an owned card does, and
\* the routes answer "Exploration card already owned" to both
add_player_exploration_card(d, player_id, exploration_key) ==
    IF exploration_key \notin ExplorationKeys
    THEN Out(d, "Exploration card already owned", None)
    ELSE IF get_exploration_definition(exploration_key).subtype = "attach"
    THEN Out(d, "Attachments must be assigned to a planet", None)
    ELSE IF OwnedCards(d, player_id, {exploration_key}) # {}
    THEN Out(d, "Exploration card already owned", None)
    ELSE Out([d EXCEPT !.playerExplorationCards = @ \cup
                    {ExplorationRow(player_id, exploration_key)}],
             "added", None)

remove_player_exploration_card(d, player_id, exploration_key) ==
    IF OwnedCards(d, player_id, {exploration_key}) = {}
    THEN Out(d, "Exploration card not assigned to player", None)
    ELSE Out([d EXCEPT !.playerExplorationCards = @ \ OwnedCards(d, player_id, {exploration_key})],
             "removed", None)

\* as ValidateFragments, a frontier fragment counting as a type of its own
ValidateFragments_frontier_counts(d, player_id, fragment_keys) ==
    LET rows == OwnedCards(d, player_id, SeqRange(fragment_keys)) IN
    IF Len(fragment_keys) # 3 THEN "Exactly three relic fragments are required"
    ELSE IF Cardinality(SeqRange(fragment_keys)) # 3 THEN "Fragments must be distinct"
    ELSE IF Cardinality(rows) # 3 THEN "Selected relic fragments not found"
    ELSE IF \E r \in rows : get_exploration_definition(r.explorationKey).subtype # "relic_fragment"
    THEN "Only relic fragments can be restored"
    ELSE IF Cardinality({ get_exploration_definition(r.explorationKey).type : r \in rows }) > 1
    THEN "Fragments must share a planet type. Frontier fragments are wild."
    ELSE "valid"

\* the checks made before a relic is picked (routes/cards.py 1166-1215); the
\* name of the first one that fails, or "valid"
ValidateFragments(d, player_id, fragment_keys) ==
    LET rows == OwnedCards(d, player_id, SeqRange(fragment_keys)) IN
    IF Len(fragment_keys) # 3 THEN "Exactly three relic fragments are required"
    ELSE IF Cardinality(SeqRange(fragment_keys)) # 3 THEN "Fragments must be distinct"
    ELSE IF Cardinality(rows) # 3 THEN "Selected relic fragments not found"
    ELSE IF \E r \in rows : get_exploration_definition(r.explorationKey).subtype # "relic_fragment"
    THEN "Only relic fragments can be restored"
    ELSE IF Cardinality({ get_exploration_definition(r.explorationKey).type : r \in rows }
                            \ {"frontier"}) > 1
    THEN "Fragments must share a planet type. Frontier fragments are wild."
    ELSE "valid"

\* list_available_exploration_definitions(db_path, player_id, ['relic'])
AvailableRelics(d, player_id) ==
    { k \in RelicKeys : OwnedCards(d, player_id, {k}) = {} }

\* as RestoreTransaction, committing the rows deleted when fewer than three match
RestoreTransaction_partial(d, player_id, fragment_keys, relic_choice) ==
    LET deleted == OwnedCards(d, player_id, SeqRange(fragment_keys))
        without == [d EXCEPT !.playerExplorationCards = @ \ deleted]
    IN
    IF Cardinality(deleted) # Len(fragment_keys)
    THEN Out(without, "Selected relic fragments not available", None)
    ELSE IF OwnedCards(d, player_id, {relic_choice}) # {}
    THEN Out(d, "Unable to restore relic", None)
    ELSE Out([without EXCEPT !.playerExplorationCards = @ \cup
                    {ExplorationRow(player_id, relic_choice)}],
             "restored", None)

\* routes/cards.py 1235-1254: DELETE the fragments; rollback unless three rows
\* went; INSERT the relic, which fails on idx_player_exploration_unique if the
\* player holds it by now (get_db_connection rolls back); commit
RestoreTransaction(d, player_id, fragment_keys, relic_choice) ==
    LET deleted == OwnedCards(d, player_id, SeqRange(fragment_keys))
        without == [d EXCEPT !.playerExplorationCards = @ \ deleted]
    IN
    IF Cardinality(deleted) # Len(fragment_keys)
    THEN Out(d, "Selected relic fragments not available", None)
    ELSE IF OwnedCards(d, player_id, {relic_choice}) # {}
    THEN Out(d, "Unable to restore relic", None)
    ELSE Out([without EXCEPT !.playerExplorationCards = @ \cup
                    {ExplorationRow(player_id, relic_choice)}],
             "restored", None)

\* the store after the player has acquired the cards named
RECURSIVE Acquire(_, _, _)
Acquire(d, player_id, keys) ==
    IF keys = <<>> THEN d
    ELSE Acquire(add_player_exploration_card(d, player_id, Head(keys)).db, player_id, Tail(keys))

\* the fragment lists the restore requests send
FragmentLists ==
    { <<"f1", "f2", "f3">>, <<"f1", "f2", "r1">>, <<"f1", "f2", "x1">>, <<"f1", "h1", "x1">>,
      <<"f1", "f2">>, <<"f1", "f1", "f2">> }

\* a game just created, or one in which player 1 has found fragments
InitRelic ==
    /\ InitRegistry
    /\ db \in { NewStore, Acquire(NewStore, 1, <<"f1", "f2", "f3">>),
                 Acquire(NewStore, 1, <<"f1", "f2", "h1", "x1">>) }

\* POST exploration: add_player_exploration of routes/cards.py
route_add_player_exploration(player_id, exploration_key) ==
    LET out == add_player_exploration_card(db, player_id, exploration_key) IN
    /\ ops < MaxRelicOps
    /\ ops' = ops + 1
    /\ db' = out.db
    /\ lastOp' = CardOp("add_player_exploration", player_id, exploration_key, FALSE, None, out)
    /\ UNCHANGED <<sessionVars, reqs>>

\* DELETE exploration: remove_player_exploration of routes/cards.py
route_remove_player_exploration(player_id, exploration_key) ==
    LET out == remove_player_exploration_card(db, player_id, exploration_key) IN
    /\ ops < MaxRelicOps
    /\ ops' = ops + 1
    /\ db' = out.db
    /\ lastOp' = CardOp("remove_player_exploration", player_id, exploration_key, FALSE, None, out)
    /\ UNCHANGED <<sessionVars, reqs>>

\* restore_relic_from_fragments is entered: the fragments are validated
rr_validate(w, player_id, fragment_keys) ==
    LET verdict == ValidateFragments(db, player_id, fragment_keys) IN
    /\ ops < MaxRelicOps
    /\ ops' = ops + 1
    /\ FreeWorker(w)
    /\ IF verdict # "valid"
       THEN /\ reqs' = reqs
            /\ lastOp' = CardOp("restore_relic_from_fragments", player_id, fragment_keys, FALSE,
                                None, Out(db, verdict, None))
       ELSE /\ reqs' = [reqs EXCEPT ![w] =
                    [pc |-> "relics", op |-> "restore_relic_from_fragments", player |-> player_id,
                     key |-> fragment_keys, flag |-> FALSE, seen |-> None]]
            /\ UNCHANGED lastOp
    /\ UNCHANGED <<sessionVars, db>>

\* available_relics is listed; relic_choice = random.choice(available_relics)
rr_choose(w) ==
    /\ reqs[w].pc = "relics"
    /\ IF AvailableRelics(db, reqs[w].player) = {}
       THEN ReqReturn(w, Out(db, "No relics remaining to restore", None), None)
       ELSE \E relic_choice \in AvailableRelics(db, reqs[w].player) :
                ReqGoto(w, "restore", relic_choice)
    /\ UNCHANGED <<sessionVars, db, ops>>

\* the transaction that deletes the fragments and inserts the relic
rr_restore(w) ==
    LET out == RestoreTransaction(db, reqs[w].player, reqs[w].key, reqs[w].seen) IN
    /\ reqs[w].pc = "restore"
    /\ db' = out.db
    /\ ReqReturn(w, Out(out.db, out.why, reqs[w].seen), None)
    /\ UNCHANGED <<sessionVars, ops>>

NextRelic ==
    \/ \E p \in PlayerIds, k \in FragmentKeys \cup RelicKeys : route_add_player_exploration(p, k)
    \/ \E p \in PlayerIds, k \in FragmentKeys \cup RelicKeys : route_remove_player_exploration(p, k)
    \/ \E w \in Workers, p \in PlayerIds, ks \in FragmentLists : rr_validate(w, p, ks)
    \/ \E w \in Workers : rr_choose(w)
    \/ \E w \in Workers : rr_restore(w)

SpecRelic == InitRelic /\ [][NextRelic]_vars

(* ---------------------------------------------------------------------- *)
(* Action cards, planets, planet attachments and draws (routes/cards.py,   *)
(* routes/planets.py).  Each route runs its statements through             *)
(* execute_query, one connection and one commit per statement; the routes  *)
(* are followed one request at a time.                                     *)
(* ---------------------------------------------------------------------- *)
ActionKeys == {"ac1", "ac2"}

\* planets of the catalog: p1 is cultural, p2 is hazardous
PlanetKeys == {"p1", "p2"}

\* SELECT ... FROM planetDefinitions WHERE planetKey = ?
get_planet_definition(planet_key) ==
    IF planet_key = "p1" THEN [type |-> "cultural"] ELSE [type |-> "hazardous"]

ActionRow(player_id, action_key, is_exhausted) ==
    [playerId |-> player_id, actionKey |-> action_key, isExhausted |-> is_exhausted]

PlanetRow(player_id, planet_key, is_exhausted) ==
    [playerId |-> player_id, planetKey |-> planet_key, isExhausted |-> is_exhausted]

AttachmentRow(player_id, planet_key, exploration_key) ==
    [playerId |-> player_id, planetKey |-> planet_key, explorationKey |-> exploration_key]

\* a request is served: the store the route leaves and the response it gives
Serve(op, player_id, key, flag, out) ==
    /\ ops' = ops + 1
    /\ db' = out.db
    /\ lastOp' = CardOp(op, player_id, key, flag, None, out)
    /\ UNCHANGED <<sessionVars, reqs>>

add_player_action(player_id, action_key) ==
    /\ ops < MaxCardOps
    /\ Serve("add_player_action", player_id, action_key, FALSE,
          IF action_key = "" THEN Out(db, "Action key is required", None)
          ELSE IF action_key \notin ActionKeys THEN Out(db, "Action card not found", None)
          ELSE IF \E r \in db.playerActions : r.playerId = player_id /\ r.actionKey = action_key
          THEN Out(db, "Action card already owned", None)
          ELSE Out([db EXCEPT !.playerActions = @ \cup {ActionRow(player_id, action_key, FALSE)}],
                   "added", None))

update_player_action_state(player_id, action_key, is_exhausted) ==
    LET updated == { r \in db.playerActions : r.playerId = player_id /\ r.actionKey = action_key } IN
    /\ ops < MaxCardOps
    /\ Serve("update_player_action_state", player_id, action_key, is_exhausted,
          IF updated = {} THEN Out(db, "Action card not assigned to player", None)
          ELSE Out([db EXCEPT !.playerActions =
                        (@ \ updated) \cup { [r EXCEPT !.isExhausted = is_exhausted] : r \in updated }],
                   "updated", None))

\* as remove_player_action, deleting the card from every player
remove_player_action_every_player(player_id, action_key) ==
    LET deleted == { r \in db.playerActions : r.playerId = player_id /\ r.actionKey = action_key } IN
    /\ ops < MaxCardOps
    /\ Serve("remove_player_action", player_id, action_key, FALSE,
          IF deleted = {} THEN Out(db, "Action card not assigned to player", None)
          ELSE Out([db EXCEPT !.playerActions = { r \in @ : r.actionKey # action_key }],
                   "removed", None))

remove_player_action(player_id, action_key) ==
    LET deleted == { r \in db.playerActions : r.playerId = player_id /\ r.actionKey = action_key } IN
    /\ ops < MaxCardOps
    /\ Serve("remove_player_action", player_id, action_key, FALSE,
          IF deleted = {} THEN Out(db, "Action card not assigned to player", None)
          ELSE Out([db EXCEPT !.playerActions = @ \ deleted], "removed", None))

\* as draw_random_action, choosing among all the cards of the catalog
draw_random_action_any_card(player_id) ==
    /\ ops < MaxCardOps
    /\ \E choice \in ActionKeys :
           Serve("draw_random_action", player_id, "", FALSE, Out(db, "drawn", choice))

\* the card is chosen and returned; the route writes nothing
draw_random_action(player_id) ==
    LET owned == { r.actionKey : r \in { x \in db.playerActions : x.playerId = player_id } }
        available == ActionKeys \ owned
    IN
    /\ ops < MaxCardOps
    /\ IF available = {}
       THEN Serve("draw_random_action", player_id, "", FALSE,
                  Out(db, "No action cards available to draw", None))
       ELSE \E choice \in available :
                Serve("draw_random_action", player_id, "", FALSE, Out(db, "drawn", choice))

\* as add_player_planet, without the look for an existing row
add_player_planet_unchecked(player_id, planet_key) ==
    /\ ops < MaxCardOps
    /\ Serve("add_player_planet", player_id, planet_key, FALSE,
          IF planet_key = "" THEN Out(db, "Planet key is required", None)
          ELSE IF planet_key \notin PlanetKeys THEN Out(db, "Planet not found", None)
          ELSE Out([db EXCEPT !.playerPlanets = @ \cup {PlanetRow(player_id, planet_key, FALSE)}],
                   "added", None))

add_player_planet(player_id, planet_key) ==
    /\ ops < MaxCardOps
    /\ Serve("add_player_planet", player_id, planet_key, FALSE,
          IF planet_key = "" THEN Out(db, "Planet key is required", None)
          ELSE IF planet_key \notin PlanetKeys THEN Out(db, "Planet not found", None)
          ELSE IF \E r \in db.playerPlanets : r.playerId = player_id /\ r.planetKey = planet_key
          THEN Out(db, "Planet already owned", None)
          ELSE Out([db EXCEPT !.playerPlanets = @ \cup {PlanetRow(player_id, planet_key, FALSE)}],
                   "added", None))

\* as update_player_planet_state, turning the flag over instead of setting it
update_player_planet_state_toggles(player_id, planet_key, is_exhausted) ==
    LET updated == { r \in db.playerPlanets : r.playerId = player_id /\ r.planetKey = planet_key } IN
    /\ ops < MaxCardOps
    /\ Serve("update_player_planet_state", player_id, planet_key, is_exhausted,
          IF updated = {} THEN Out(db, "Planet not assigned to player", None)
          ELSE Out([db EXCEPT !.playerPlanets =
                        (@ \ updated) \cup { [r EXCEPT !.isExhausted = ~r.isExhausted] : r \in updated }],
                   "updated", None))

update_player_planet_state(player_id, planet_key, is_exhausted) ==
    LET updated == { r \in db.playerPlanets : r.playerId = player_id /\ r.planetKey = planet_key } IN
    /\ ops < MaxCardOps
    /\ Serve("update_player_planet_state", player_id, planet_key, is_exhausted,
          IF updated = {} THEN Out(db, "Planet not assigned to player", None)
          ELSE Out([db EXCEPT !.playerPlanets =
                        (@ \ updated) \cup { [r EXCEPT !.isExhausted = is_exhausted] : r \in updated }],
                   "updated", None))

\* DELETE FROM playerPlanets WHERE playerId = ? AND planetKey = ?; no other table is written
remove_player_planet(player_id, planet_key) ==
    LET deleted == { r \in db.playerPlanets : r.playerId = player_id /\ r.planetKey = planet_key } IN
    /\ ops < MaxCardOps
    /\ Serve("remove_player_planet", player_id, planet_key, FALSE,
          IF deleted = {} THEN Out(db, "Planet not assigned to player", None)
          ELSE Out([db EXCEPT !.playerPlanets = @ \ deleted], "removed", None))

update_player_exploration(player_id, exploration_key, is_exhausted) ==
    LET updated == OwnedCards(db, player_id, {exploration_key}) IN
    /\ ops < MaxCardOps
    /\ Serve("update_player_exploration", player_id, exploration_key, is_exhausted,
          IF updated = {} THEN Out(db, "Exploration card not assigned to player", None)
          ELSE Out([db EXCEPT !.playerExplorationCards =
                        (@ \ updated) \cup { [r EXCEPT !.isExhausted = is_exhausted] : r \in updated }],
                   "updated", None))

\* exploration_catalog.add_planet_attachment: None (here "Attachment already
\* present", the routes' answer to None) for a key the catalog does not have
\* and for a triple that exists
add_planet_attachment(d, player_id, planet_key, exploration_key) ==
    IF exploration_key \notin ExplorationKeys THEN Out(d, "Attachment already present", None)
    ELSE IF get_exploration_definition(exploration_key).subtype # "attach"
    THEN Out(d, "Only attachments can be assigned to planets", None)
    ELSE IF AttachmentRow(player_id, planet_key, exploration_key) \in d.planetAttachments
    THEN Out(d, "Attachment already present", None)
    ELSE Out([d EXCEPT !.planetAttachments = @ \cup
                    {AttachmentRow(player_id, planet_key, exploration_key)}],
             "attached", None)

\* as add_attachment_to_planet, without the look for the player's planet
add_attachment_to_planet_any_planet(player_id, planet_key, exploration_key) ==
    /\ ops < MaxCardOps
    /\ Serve("add_attachment_to_planet", player_id, <<planet_key, exploration_key>>, FALSE,
          add_planet_attachment(db, player_id, planet_key, exploration_key))

add_attachment_to_planet(player_id, planet_key, exploration_key) ==
    /\ ops < MaxCardOps
    /\ Serve("add_attachment_to_planet", player_id, <<planet_key, exploration_key>>, FALSE,
          IF ~\E r \in db.playerPlanets : r.playerId = player_id /\ r.planetKey = planet_key
          THEN Out(db, "Planet not assigned to player", None)
          ELSE add_planet_attachment(db, player_id, planet_key, exploration_key))

remove_attachment_from_planet(player_id, planet_key, exploration_key) ==
    /\ ops < MaxCardOps
    /\ Serve("remove_attachment_from_planet", player_id, <<planet_key, exploration_key>>, FALSE,
          IF AttachmentRow(player_id, planet_key, exploration_key) \notin db.planetAttachments
          THEN Out(db, "Attachment not found on planet", None)
          ELSE Out([db EXCEPT !.planetAttachments = @ \
                        {AttachmentRow(player_id, planet_key, exploration_key)}],
                   "removed", None))

\* as ExploreAvailable, the cards the player holds not left out
ExploreAvailable_held_too(d, player_id, planet_key) ==
    { k \in ExplorationKeys :
        /\ get_exploration_definition(k).type = get_planet_definition(planet_key).type
        /\ ~ (/\ get_exploration_definition(k).subtype = "attach"
              /\ AttachmentRow(player_id, planet_key, k) \in d.planetAttachments) }

\* the cards explore_planet draws from: the definitions of the planet's type,
\* less the action cards and fragments the player holds and the attachments
\* already on this planet
ExploreAvailable(d, player_id, planet_key) ==
    { k \in ExplorationKeys :
        /\ get_exploration_definition(k).type = get_planet_definition(planet_key).type
        /\ ~ (/\ get_exploration_definition(k).subtype \in {"action", "relic_fragment"}
              /\ OwnedCards(d, player_id, {k}) # {})
        /\ ~ (/\ get_exploration_definition(k).subtype = "attach"
              /\ AttachmentRow(player_id, planet_key, k) \in d.planetAttachments) }

\* what explore_planet does with the card drawn
ExploreOutcome(d, player_id, planet_key, drawn) ==
    LET subtype == get_exploration_definition(drawn).subtype
        attachment == add_planet_attachment(d, player_id, planet_key, drawn)
        added == add_player_exploration_card(d, player_id, drawn)
    IN
    IF subtype = "attach"
    THEN Out(attachment.db, IF attachment.why = "attached" THEN "attachment" ELSE attachment.why,
             drawn)
    ELSE IF subtype = "relic_fragment"
    THEN Out(added.db, IF added.why = "added" THEN "relic_fragment" ELSE added.why, drawn)
    ELSE Out(d, "action", drawn)

explore_planet(player_id, planet_key) ==
    /\ ops < MaxCardOps
    /\ IF planet_key = ""
       THEN Serve("explore_planet", player_id, planet_key, FALSE, Out(db, "Planet key is required", None))
       ELSE IF ~\E r \in db.playerPlanets : r.playerId = player_id /\ r.planetKey = planet_key
       THEN Serve("explore_planet", player_id, planet_key, FALSE,
                  Out(db, "Planet not assigned to player", None))
       ELSE IF ExploreAvailable(db, player_id, planet_key) = {}
       THEN Serve("explore_planet", player_id, planet_key, FALSE,
                  Out(db, "No exploration cards remaining for this planet", None))
       ELSE \E drawn \in ExploreAvailable(db, player_id, planet_key) :
                Serve("explore_planet", player_id, planet_key, FALSE,
                      ExploreOutcome(db, player_id, planet_key, drawn))

\* draw_player_objective of routes/cards.py over draw_random_objective_for_player:
\* the objectives of the type that are not in play (public) or not held by
\* the player (secret); one is chosen and assigned
draw_player_objective(player_id, objective_type) ==
    LET available ==
            { k \in ObjectiveKeys :
                /\ get_objective_definition(k).type = objective_type
                /\ IF objective_type \in PUBLIC_OBJECTIVE_TYPES
                   THEN get_game_public_objective(db, k) = {}
                   ELSE Owned(db, player_id, k) = {} }
    IN
    /\ ops < MaxCardOps
    /\ IF objective_type \notin PUBLIC_OBJECTIVE_TYPES \cup {"secret"}
       THEN Serve("draw_player_objective", player_id, objective_type, FALSE,
                  Out(db, "Objective type is invalid", None))
       ELSE IF available = {}
       THEN Serve("draw_player_objective", player_id, objective_type, FALSE,
                  Out(db, "No objectives of this type remain", None))
       ELSE \E choice \in available :
                LET out == IF objective_type \in PUBLIC_OBJECTIVE_TYPES
                           THEN assign_public_objective_to_game(db, player_id, choice)
                           ELSE add_player_objective(db, player_id, choice)
                IN Serve("draw_player_objective", player_id, objective_type, FALSE,
                         Out(out.db, out.why, choice))

\* a game in which player 1 has taken both planets, explored the hazardous
\* one twice and holds an action card and a secret objective
SettledStore ==
    [NewStore EXCEPT
        !.playerObjectives = {ObjectiveRow(1, "s1", FALSE)},
        !.playerPlanets = {PlanetRow(1, "p1", FALSE), PlanetRow(1, "p2", FALSE)},
        !.playerActions = {ActionRow(1, "ac1", FALSE)},
        !.playerExplorationCards = {ExplorationRow(1, "h1")},
        !.planetAttachments = {AttachmentRow(1, "p2", "t2")}]

InitCards ==
    /\ InitRegistry
    /\ db \in {NewStore, SettledStore}

NextCards ==
    \/ \E p \in PlayerIds, k \in ActionKeys \cup {"zz"} : add_player_action(p, k)
    \/ \E p \in PlayerIds, k \in ActionKeys, x \in BOOLEAN : update_player_action_state(p, k, x)
    \/ \E p \in PlayerIds, k \in ActionKeys : remove_player_action(p, k)
    \/ \E p \in PlayerIds : draw_random_action(p)
    \/ \E p \in PlayerIds, k \in PlanetKeys \cup {"zz"} : add_player_planet(p, k)
    \/ \E p \in PlayerIds, k \in PlanetKeys, x \in BOOLEAN : update_player_planet_state(p, k, x)
    \/ \E p \in PlayerIds, k \in PlanetKeys : remove_player_planet(p, k)
    \/ \E p \in PlayerIds, k \in {"h1", "f1"}, x \in BOOLEAN : update_player_exploration(p, k, x)
    \/ \E p \in PlayerIds, k \in PlanetKeys, e \in {"t1", "t2", "f1", "zz"} :
           add_attachment_to_planet(p, k, e)
    \/ \E p \in PlayerIds, k \in PlanetKeys, e \in AttachKeys : remove_attachment_from_planet(p, k, e)
    \/ \E p \in PlayerIds, k \in PlanetKeys : explore_planet(p, k)
    \/ \E p \in PlayerIds, t \in {"public_tier2", "secret", "bogus"} : draw_player_objective(p, t)
    \/ \E p \in PlayerIds, k \in SecretKeys : route_add_player_objective(p, k)
    \/ \E p \in PlayerIds, k \in SecretKeys \cup Tier2Keys : route_remove_player_objective(p, k)

SpecCards == InitCards /\ [][NextCards]_vars

(* ---------------------------------------------------------------------- *)
(* Ledger transactions, statement by statement                             *)
(* ---------------------------------------------------------------------- *)
\* A connection's writes stay in its open transaction until
\* connection.commit(); db is the committed store, the one every other
\* connection reads.  reqs[w].seen.n counts the statements the connection
\* of request w has executed and reqs[w].seen.pick holds relic_choice.

\* one cursor.execute of a transaction; ROLLBACK stands for the rollback the
\* code issues itself before it raises or returns, raise for an exception
\* the statement or the code around it throws
Stmt(stmt, player_id, key, arg) == [stmt |-> stmt, player |-> player_id, key |-> key, arg |-> arg]

\* the statements a transaction executes after its SELECTs, read from the
\* store it meets once it holds the write lock:
\*   assign_public_objective_to_game  objective_catalog.py 380-414
\*   update_player_objective_state    objective_catalog.py 636-693
\*   remove_public_objective_from_game objective_catalog.py 446-484
\*   remove_player_objective          objective_catalog.py 766-800
\*   restore_relic_from_fragments     routes/cards.py 1238-1254
TxStatements(d, r) ==
    LET definition == get_objective_definition(r.key)
        owned == Owned(d, r.player, r.key)
        slot_index == ScanSlots(UsedIndices(d, definition.type), 0)
    IN
    CASE r.op = "add_player_objective" ->
            IF get_game_public_objective(d, r.key) # {}
            THEN << Stmt("ROLLBACK", r.player, r.key, "Objective already in play") >>
            ELSE IF slot_index = None
            THEN << Stmt("ROLLBACK", r.player, r.key, "All Stage Objectives are in Play") >>
            ELSE << Stmt("INSERT gamePublicObjectives", r.player, r.key, slot_index) >>
                 \o [ i \in 1..Cardinality(DOMAIN d.players) |->
                        Stmt("INSERT OR IGNORE playerObjectives", i, r.key, FALSE) ]
      [] r.op = "update_player_objective" ->
            IF owned = {}
            THEN << Stmt("ROLLBACK", r.player, r.key, "not assigned") >>
            ELSE IF (CHOOSE x \in owned : TRUE).isCompleted = r.flag
            THEN << >>
            ELSE << Stmt("UPDATE playerObjectives", r.player, r.key, r.flag),
                    Stmt("UPDATE players", r.player, r.key,
                         IF r.flag THEN definition.victoryPoints
                         ELSE 0 - definition.victoryPoints) >>
      [] r.op = "remove_player_objective" /\ definition.type \in PUBLIC_OBJECTIVE_TYPES ->
            IF get_game_public_objective(d, r.key) = {}
            THEN << Stmt("ROLLBACK", r.player, r.key, "not in play") >>
            ELSE IF ObjectiveRows(d, r.key) # {}
            THEN << Stmt("raise", r.player, r.key, "AttributeError") >>
            ELSE << Stmt("DELETE playerObjectives WHERE objectiveKey", r.player, r.key, None),
                    Stmt("DELETE gamePublicObjectives", r.player, r.key, None) >>
      [] r.op = "remove_player_objective" /\ definition.type \notin PUBLIC_OBJECTIVE_TYPES ->
            IF owned = {}
            THEN << Stmt("ROLLBACK", r.player, r.key, "not assigned") >>
            ELSE << Stmt("DELETE playerObjectives", r.player, r.key, None) >>
                 \o (IF (CHOOSE x \in owned : TRUE).isCompleted
                     THEN << Stmt("UPDATE players", r.player, r.key,
                                  0 - definition.victoryPoints) >>
                     ELSE << >>)
      [] r.op = "restore_relic_from_fragments" ->
            << Stmt("DELETE playerExplorationCards", r.player, r.key, None) >>
            \o (IF Cardinality(OwnedCards(d, r.player, SeqRange(r.key))) # Len(r.key)
                THEN << Stmt("ROLLBACK", r.player, r.key,
                             "Selected relic fragments not available") >>
                ELSE IF OwnedCards(d, r.player, {r.seen.pick}) # {}
                THEN << Stmt("raise", r.player, r.key, "Unable to restore relic") >>
                ELSE << Stmt("INSERT playerExplorationCards", r.player, r.key, r.seen.pick) >>)

\* the connection's view after it has executed statement s on view d
ApplyStatement(d, s) ==
    CASE s.stmt = "INSERT gamePublicObjectives" ->
            [d EXCEPT !.gamePublicObjectives = @ \cup
                {[objectiveKey |-> s.key, type |-> get_objective_definition(s.key).type,
                  slotIndex |-> s.arg]}]
      [] s.stmt = "INSERT OR IGNORE playerObjectives" ->
            IF Owned(d, s.player, s.key) # {} THEN d
            ELSE [d EXCEPT !.playerObjectives = @ \cup {ObjectiveRow(s.player, s.key, FALSE)}]
      [] s.stmt = "UPDATE playerObjectives" ->
            [d EXCEPT !.playerObjectives = (@ \ Owned(d, s.player, s.key)) \cup
                { ObjectiveRow(s.player, s.key, s.arg) : x \in Owned(d, s.player, s.key) }]
      [] s.stmt = "UPDATE players" ->
            IF s.player \in DOMAIN d.players
            THEN [d EXCEPT !.players[s.player] = AddClamped(@, s.arg)]
            ELSE d
      [] s.stmt = "DELETE playerObjectives" ->
            [d EXCEPT !.playerObjectives = @ \ Owned(d, s.player, s.key)]
      [] s.stmt = "DELETE playerObjectives WHERE objectiveKey" ->
            [d EXCEPT !.playerObjectives = @ \ ObjectiveRows(d, s.key)]
      [] s.stmt = "DELETE gamePublicObjectives" ->
            [d EXCEPT !.gamePublicObjectives = @ \ get_game_public_objective(d, s.key)]
      [] s.stmt = "DELETE playerExplorationCards" ->
            [d EXCEPT !.playerExplorationCards = @ \ OwnedCards(d, s.player, SeqRange(s.key))]
      [] s.stmt = "INSERT playerExplorationCards" ->
            [d EXCEPT !.playerExplorationCards = @ \cup {ExplorationRow(s.player, s.arg)}]
      [] OTHER -> d

\* the connection's view after the first n statements
RECURSIVE TxAfter(_, _, _)
TxAfter(d, statements, n) ==
    IF n = 0 THEN d
    ELSE ApplyStatement(TxAfter(d, statements, n - 1), statements[n])

\* a ledger request is entered: what the function does before it opens its
\* transaction (add_player_objective 572-581, remove_player_objective
\* 733-740, restore_relic_from_fragments 1166-1233)
tx_enter(w, op, player_id, key, flag) ==
    LET refusal ==
            CASE op = "add_player_objective" /\ get_game_public_objective(db, key) # {} ->
                    "Objective already in play"
              [] op = "remove_player_objective"
                 /\ get_objective_definition(key).type \in PUBLIC_OBJECTIVE_TYPES
                 /\ Owned(db, player_id, key) = {} -> "not assigned"
              [] op = "restore_relic_from_fragments"
                 /\ ValidateFragments(db, player_id, key) # "valid" ->
                    ValidateFragments(db, player_id, key)
              [] op = "restore_relic_from_fragments"
                 /\ ValidateFragments(db, player_id, key) = "valid"
                 /\ AvailableRelics(db, player_id) = {} -> "No relics remaining to restore"
              [] OTHER -> "none"
        picks == IF op = "restore_relic_from_fragments" /\ refusal = "none"
                 THEN AvailableRelics(db, player_id) ELSE {None}
    IN
    /\ ops < MaxTxOps
    /\ ops' = ops + 1
    /\ FreeWorker(w)
    /\ IF refusal # "none"
       THEN /\ reqs' = reqs
            /\ lastOp' = CardOp(op, player_id, key, flag, TotalOf(db, player_id),
                                Out(db, refusal, None))
       ELSE /\ \E relic_choice \in picks :
                    reqs' = [reqs EXCEPT ![w] =
                        [pc |-> "tx", op |-> op, player |-> player_id, key |-> key,
                         flag |-> flag, seen |-> [n |-> 0, pick |-> relic_choice]]]
            /\ UNCHANGED lastOp
    /\ UNCHANGED <<sessionVars, db>>

\* the connection takes the write lock: BEGIN IMMEDIATE, or the first
\* DELETE of restore_relic_from_fragments
tx_lock(w) ==
    /\ reqs[w].pc = "tx"
    /\ CanBegin(reqs, w)
    /\ reqs' = [reqs EXCEPT ![w].pc = "write"]
    /\ UNCHANGED <<sessionVars, db, ops, lastOp>>

\* the next INSERT, UPDATE or DELETE is executed in the open transaction
tx_execute(w) ==
    LET r == reqs[w]
        statements == TxStatements(db, r)
    IN
    /\ r.pc = "write"
    /\ r.seen.n < Len(statements)
    /\ statements[r.seen.n + 1].stmt \notin {"ROLLBACK", "raise"}
    /\ reqs' = [reqs EXCEPT ![w].seen.n = @ + 1]
    /\ UNCHANGED <<sessionVars, db, ops, lastOp>>

\* as tx_fail, the statements executed so far staying in the store
tx_fail_keeps_writes(w) ==
    LET r == reqs[w] IN
    /\ r.pc = "write"
    /\ db' = TxAfter(db, TxStatements(db, r), r.seen.n)
    /\ ReqReturn(w, Out(db, "Database operation failed", r.seen.n), TotalOf(db, r.player))
    /\ UNCHANGED <<sessionVars, ops>>

\* the store raises sqlite3.Error at the statement or commit the
\* transaction has come to: get_db_connection calls conn.rollback(), closes
\* the connection and raises DatabaseError (database.py 19-26)
tx_fail(w) ==
    LET r == reqs[w] IN
    /\ r.pc = "write"
    /\ db' = db
    /\ ReqReturn(w, Out(db, "Database operation failed", r.seen.n), TotalOf(db, r.player))
    /\ UNCHANGED <<sessionVars, ops>>

\* as tx_end, an exception that is no sqlite3.Error leaving the with block
\* with the connection still open
tx_end_no_finally(w) ==
    LET r == reqs[w]
        statements == TxStatements(db, r)
        after == TxAfter(db, statements, r.seen.n)
    IN
    /\ r.pc = "write"
    /\ IF r.seen.n = Len(statements)
       THEN /\ db' = after
            /\ ReqReturn(w, Out(after, "committed", r.seen.n), TotalOf(db, r.player))
       ELSE /\ statements[r.seen.n + 1].stmt = "ROLLBACK"
            /\ db' = db
            /\ ReqReturn(w, Out(db, statements[r.seen.n + 1].arg, r.seen.n),
                         TotalOf(db, r.player))
    /\ UNCHANGED <<sessionVars, ops>>

\* the transaction ends as the code ends it: connection.commit() after the
\* last statement, or the code's own ROLLBACK, or an exception that leaves
\* the with block, after which conn.close() drops the open transaction
tx_end(w) ==
    LET r == reqs[w]
        statements == TxStatements(db, r)
        after == TxAfter(db, statements, r.seen.n)
    IN
    /\ r.pc = "write"
    /\ IF r.seen.n = Len(statements)
       THEN /\ db' = after
            /\ ReqReturn(w, Out(after, "committed", r.seen.n), TotalOf(db, r.player))
       ELSE /\ statements[r.seen.n + 1].stmt \in {"ROLLBACK", "raise"}
            /\ db' = db
            /\ ReqReturn(w, Out(db, statements[r.seen.n + 1].arg, r.seen.n),
                         TotalOf(db, r.player))
    /\ UNCHANGED <<sessionVars, ops>>

\* a game under way: four stage I objectives revealed, the first of them
\* scored by player 1, who also holds a secret objective and three fragments
InitTx ==
    /\ InitRegistry
    /\ db = update_player_objective_state(
                add_player_objective(
                    Acquire(Reveal(NewStore, SlotsPerTier - 1), 1, <<"f1", "f2", "f3">>),
                    1, "s1").db,
                1, "a1", TRUE).db

NextTx ==
    \/ \E w \in Workers, p \in PlayerIds,
          q \in { <<"add_player_objective", "a5", FALSE>>,
                  <<"add_player_objective", "a6", FALSE>>,
                  <<"update_player_objective", "a1", TRUE>>,
                  <<"update_player_objective", "a1", FALSE>>,
                  <<"remove_player_objective", "a1", FALSE>>,
                  <<"remove_player_objective", "s1", FALSE>>,
                  <<"restore_relic_from_fragments", <<"f1", "f2", "f3">>, FALSE>> } :
            tx_enter(w, q[1], p, q[2], q[3])
    \/ \E w \in Workers : tx_lock(w)
    \/ \E w \in Workers : req_busy(w)
    \/ \E w \in Workers : tx_execute(w)
    \/ \E w \in Workers : tx_fail(w)
    \/ \E w \in Workers : tx_end(w)

SpecTx == InitTx /\ [][NextTx]_vars

\* the requests followed when the threads are taken to keep running: player
\* 1 reveals a stage I objective and asks for the removal of one in play
NextTxLive ==
    \/ \E w \in Workers,
          q \in { <<"add_player_objective", "a5", FALSE>>,
                  <<"remove_player_objective", "a1", FALSE>> } :
            tx_enter(w, q[1], 1, q[2], q[3])
    \/ \E w \in Workers : tx_lock(w)
    \/ \E w \in Workers : req_busy(w)
    \/ \E w \in Workers : tx_execute(w)
    \/ \E w \in Workers : tx_fail(w)
    \/ \E w \in Workers : tx_end(w)

\* the request threads keep running: a thread that waits for the write lock
\* gets it or gets sqlite's "database is locked" when its wait runs out, and
\* a thread inside a transaction goes on to its next statement and to the
\* end of the with block.  Nothing makes the store fail: tx_fail is not fair.
SpecTxLive ==
    /\ InitTx
    /\ [][NextTxLive]_vars
    /\ \A w \in Workers :
          /\ WF_vars(tx_lock(w) \/ req_busy(w))
          /\ WF_vars(tx_execute(w))
          /\ WF_vars(tx_end(w))

(* ---------------------------------------------------------------------- *)
(* Creating a game (routes/games.py)                                       *)
(* ---------------------------------------------------------------------- *)
\* create_game_file(game_name, players, games_dir).  players holds the
\* names supplied, "" for a name that is empty once stripped.  fault names
\* what goes wrong after execute_script has created the file: "catalog" is
\* PlanetCatalogError or TechnologyCatalogError out of the seeding calls
\* (which wrap every exception of theirs, store failures included), caught
\* by `except Exception`, which removes nothing; "store" is DatabaseError
\* out of execute_query, whose handler removes the file.  Every playerId is
\* a fresh uuid4, written here as the row's number; db holds the tables of
\* the one store file the names of GameNames lead to.
create_game_file(game_name, players, fault) ==
    LET safe_game_name == SafeGameName(game_name)
        why == IF Strip(game_name) = <<>> THEN "Game name cannot be empty"
               ELSE IF players = <<>> THEN "At least one player is required"
               ELSE IF safe_game_name \in stores THEN "Game with this name already exists"
               ELSE IF fault = "catalog" THEN "An unexpected error occurred"
               ELSE IF fault = "store" THEN "Failed to create game database"
               ELSE IF \E i \in DOMAIN players : players[i] = ""
               THEN "All players must have a name"
               ELSE "created"
    IN
    /\ ops < MaxCreateOps
    /\ ops' = ops + 1
    /\ stores' = IF why \in {"created", "An unexpected error occurred"}
                 THEN stores \cup {safe_game_name} ELSE stores
    /\ db' = IF why = "created"
             THEN [NewStore EXCEPT !.players = [i \in DOMAIN players |-> 0]]
             ELSE IF why = "An unexpected error occurred"
             THEN [NewStore EXCEPT !.players = << >>]
             ELSE db
    /\ lastOp' = Op("create_game_file", NoConn, game_name, NoPlayer,
                    <<Call("create_game_file", NoConn,
                           Ret(why = "created", game_name, players, why))>>)
    /\ UNCHANGED <<active_sessions, session_to_game, connections, threads, detached, reqs>>

\* GAMES_DIR holds no store file
InitCreate ==
    /\ InitRegistry
    /\ db = [NewStore EXCEPT !.players = << >>]

NextCreate ==
    \E game_name \in GameNames \cup {<<" ">>},
       players \in {<< >>, <<"A">>, <<"A", "B">>, <<"A", "">>},
       fault \in {"none", "catalog", "store"} :
        create_game_file(game_name, players, fault)

SpecCreate == InitCreate /\ [][NextCreate]_vars

(* ---------------------------------------------------------------------- *)
(* add_player_action served by concurrent request threads                  *)
(* ---------------------------------------------------------------------- *)
\* Each execute_query opens a connection of its own and commits its one
\* statement, so the SELECT and the INSERT of add_player_action are two
\* steps between which other requests run.  A row inserted here carries the
\* id AUTOINCREMENT gives it: two rows for one pair would be two rows.

\* the request is entered and the definition is found (routes/cards.py 214-232)
act_begin(w, player_id, action_key) ==
    /\ ops < MaxActOps
    /\ ops' = ops + 1
    /\ FreeWorker(w)
    /\ reqs' = [reqs EXCEPT ![w] =
            [pc |-> "check", op |-> "add_player_action", player |-> player_id,
             key |-> action_key, flag |-> FALSE, seen |-> None]]
    /\ UNCHANGED <<sessionVars, db, lastOp>>

\* existing = execute_query("SELECT 1 FROM playerActions WHERE ...")
act_check(w) ==
    LET r == reqs[w] IN
    /\ r.pc = "check"
    /\ IF \E x \in db.playerActions : x.playerId = r.player /\ x.actionKey = r.key
       THEN ReqReturn(w, Out(db, "Action card already owned", None), None)
       ELSE ReqGoto(w, "insert", None)
    /\ UNCHANGED <<sessionVars, db, ops>>

\* as act_insert, on a table without idx_player_actions_unique
act_insert_no_index(w) ==
    LET r == reqs[w] IN
    /\ r.pc = "insert"
    /\ db' = [db EXCEPT !.playerActions = @ \cup
                { ActionRow(r.player, r.key, FALSE)
                    @@ [id |-> Cardinality(db.playerActions) + 1] }]
    /\ ReqReturn(w, Out(db', "added", None), None)
    /\ UNCHANGED <<sessionVars, ops>>

\* execute_query("INSERT INTO playerActions ..."): on a pair that is in the
\* table by now idx_player_actions_unique makes the INSERT raise
\* sqlite3.IntegrityError, which get_db_connection turns into DatabaseError
act_insert(w) ==
    LET r == reqs[w] IN
    /\ r.pc = "insert"
    /\ IF \E x \in db.playerActions : x.playerId = r.player /\ x.actionKey = r.key
       THEN /\ db' = db
            /\ ReqReturn(w, Out(db, "Unable to add action card", None), None)
       ELSE /\ db' = [db EXCEPT !.playerActions = @ \cup
                        { ActionRow(r.player, r.key, FALSE)
                            @@ [id |-> Cardinality(db.playerActions) + 1] }]
            /\ ReqReturn(w, Out(db', "added", None), None)
    /\ UNCHANGED <<sessionVars, ops>>

NextAct ==
    \/ \E w \in Workers, p \in PlayerIds, k \in ActionKeys : act_begin(w, p, k)
    \/ \E w \in Workers : act_check(w)
    \/ \E w \in Workers : act_insert(w)

SpecAct == InitCards /\ [][NextAct]_vars

(* ---------------------------------------------------------------------- *)
(* Type invariant                                                          *)
(* ---------------------------------------------------------------------- *)
TypeOK ==
    /\ DOMAIN active_sessions \subseteq GameNames
    /\ \A g \in DOMAIN active_sessions :
          /\ active_sessions[g].host_session_id \in Conns
          /\ DOMAIN active_sessions[g].connected_players \subseteq Conns
          /\ \A c \in DOMAIN active_sessions[g].connected_players :
                active_sessions[g].connected_players[c] \in PlayerIds
    /\ \A i \in DOMAIN session_to_game :
          session_to_game[i].sid \in Conns /\ session_to_game[i].game \in GameNames
    /\ \A i, j \in DOMAIN session_to_game :
          session_to_game[i].sid = session_to_game[j].sid => i = j
    /\ stores \subseteq { SafeGameName(g) : g \in GameNames }

(* ---------------------------------------------------------------------- *)
(* Reading the last handler's calls                                        *)
(* ---------------------------------------------------------------------- *)
\* the successful stop_hosting_session calls a handler made
StopCalls(op) ==
    { i \in DOMAIN op.calls :
        op.calls[i].fn = "stop_hosting_session" /\ op.calls[i].ret.ok }

\* the successful remove_player_from_session calls a handler made
RemoveCalls(op) ==
    { i \in DOMAIN op.calls :
        op.calls[i].fn = "remove_player_from_session" /\ op.calls[i].ret.ok }

Indexed == DictKeys(session_to_game)

Hosts == { active_sessions[g].host_session_id : g \in DOMAIN active_sessions }

Presences == UNION { DOMAIN active_sessions[g].connected_players : g \in DOMAIN active_sessions }

(* ---------------------------------------------------------------------- *)
(* C1                                                                      *)
(* ---------------------------------------------------------------------- *)
\* C1: after a successful stop_hosting_session(host) the session is gone and
\* the reverse index holds no entry for the host nor for any connection that
\* had joined the session.
C1_StopHostingClearsIndex ==
    [][\A i \in StopCalls(lastOp') :
          LET k == lastOp'.calls[i] IN
          k.ret.game \in DOMAIN active_sessions =>
              /\ k.ret.game \notin DOMAIN active_sessions'
              /\ \A d \in {k.sid} \cup DOMAIN active_sessions[k.ret.game].connected_players :
                    d \notin DictKeys(session_to_game')]_vars

(* ---------------------------------------------------------------------- *)
(* C2                                                                      *)
(* ---------------------------------------------------------------------- *)
\* C2: once the disconnect of a connection has been handled, no active
\* session has that connection as its host (so the game can be hosted anew).
C2_NoSessionOfGoneHost ==
    \A c \in Conns :
        connections[c] = "gone" =>
            \A g \in DOMAIN active_sessions : active_sessions[g].host_session_id # c

(* ---------------------------------------------------------------------- *)
(* C3                                                                      *)
(* ---------------------------------------------------------------------- *)
\* C3: stop_hosting_session(host) returns the name of a game that connection
\* was hosting and removes its session; while a game has no session every
\* join for it fails as "not found" and changes nothing, and a session for
\* the game appears again only through a successful start_hosting_session.
C3_StopThenJoinFailsUntilHosted ==
    [][/\ \A i \in StopCalls(lastOp') :
            LET k == lastOp'.calls[i] IN
            /\ k.ret.game \in DOMAIN active_sessions
            /\ active_sessions[k.ret.game].host_session_id = k.sid
            /\ k.ret.game \notin DOMAIN active_sessions'
       /\ \A c \in Conns, g \in GameNames, p \in PlayerIds :
            (/\ g \notin DOMAIN active_sessions
             /\ lastOp'.op = "join_game"
             /\ handle_join_game(c, g, p)) =>
                /\ lastOp'.calls[1].ret.ok = FALSE
                /\ lastOp'.calls[1].ret.why = "not found"
                /\ UNCHANGED <<active_sessions, session_to_game>>
       /\ \A g \in GameNames :
            (g \notin DOMAIN active_sessions /\ g \in DOMAIN active_sessions') =>
                /\ lastOp'.op = "host_game"
                /\ lastOp'.calls[1].ret.ok
                /\ \E c \in Conns : handle_host_game(c, g)]_vars

\* a host has just stopped a game that a player had joined
C3_Witness ==
    \E i \in StopCalls(lastOp) :
        /\ lastOp.calls[i].ret.game \notin DOMAIN active_sessions
        /\ \E j \in DOMAIN session_to_game :
              session_to_game[j].game = lastOp.calls[i].ret.game

(* ---------------------------------------------------------------------- *)
(* C4                                                                      *)
(* ---------------------------------------------------------------------- *)
\* C4: start_hosting_session(G, store, c) fails and changes nothing when a
\* session for G is active or the store of G does not exist; when it succeeds
\* the session of G has host c and no players and the index maps c to G.
C4_StartHosting ==
    [][\A c \in Conns, g \in GameNames :
          (lastOp'.op = "host_game" /\ handle_host_game(c, g)) =>
              LET ret == lastOp'.calls[1].ret IN
              /\ g \in DOMAIN active_sessions =>
                    ret.ok = FALSE /\ UNCHANGED <<active_sessions, session_to_game>>
              /\ DbPath(g) \notin stores =>
                    ret.ok = FALSE /\ UNCHANGED <<active_sessions, session_to_game>>
              /\ ret.ok =>
                    /\ g \in DOMAIN active_sessions'
                    /\ active_sessions'[g].host_session_id = c
                    /\ DOMAIN active_sessions'[g].connected_players = {}
                    /\ DictGet(session_to_game', c) = g
                    /\ \A h \in DOMAIN active_sessions :
                          h \in DOMAIN active_sessions' /\ active_sessions'[h] = active_sessions[h]]_vars

\* a host request was refused because the game is hosted, with a player in it
C4_Witness ==
    /\ lastOp.op = "host_game"
    /\ lastOp.calls # <<>>
    /\ lastOp.calls[1].ret.why = "already active"
    /\ Presences # {}

(* ---------------------------------------------------------------------- *)
(* C5                                                                      *)
(* ---------------------------------------------------------------------- *)
\* C5: directly after a successful stop_hosting_session(host), a second call
\* for the same host returns none and changes neither the sessions nor the
\* reverse index.
C5_StopHostingIdempotent ==
    LET n == Len(lastOp.calls) IN
    (n > 0 /\ n \in StopCalls(lastOp)) =>
        LET again == stop_hosting_session(active_sessions, session_to_game,
                                          lastOp.calls[n].sid) IN
        /\ again.ret.ok = FALSE
        /\ again.ret.game = NoGame
        /\ again.as = active_sessions
        /\ again.s2g = session_to_game

\* a host with a joined player has just stopped hosting
C5_Witness ==
    /\ lastOp.op = "disconnect"
    /\ StopCalls(lastOp) = {1}
    /\ \E j \in DOMAIN session_to_game :
          session_to_game[j].game = lastOp.calls[1].ret.game

(* ---------------------------------------------------------------------- *)
(* C6                                                                      *)
(* ---------------------------------------------------------------------- *)
NoDuplicatePlayer ==
    \A g \in DOMAIN active_sessions :
        \A d1, d2 \in DOMAIN active_sessions[g].connected_players :
            active_sessions[g].connected_players[d1] = active_sessions[g].connected_players[d2]
                => d1 = d2

\* C6: join_player_to_session fails as "not found" when the game has no
\* session and as "already connected" when the player id has a presence in
\* the session, changing nothing; no session ever holds two presences with
\* the same player id.
C6_JoinRejectsDuplicates ==
    [][/\ \A c \in Conns, g \in GameNames, p \in PlayerIds :
            (lastOp'.op = "join_game" /\ handle_join_game(c, g, p)) =>
                LET ret == lastOp'.calls[1].ret IN
                /\ g \notin DOMAIN active_sessions =>
                      /\ ret.ok = FALSE /\ ret.why = "not found"
                      /\ UNCHANGED <<active_sessions, session_to_game>>
                /\ (/\ g \in DOMAIN active_sessions
                    /\ \E d \in DOMAIN active_sessions[g].connected_players :
                          active_sessions[g].connected_players[d] = p) =>
                      /\ ret.ok = FALSE /\ ret.why = "already connected"
                      /\ UNCHANGED <<active_sessions, session_to_game>>
       /\ NoDuplicatePlayer']_vars

\* a join was refused for a player id that another connection holds
C6_Witness ==
    /\ lastOp.op = "join_game"
    /\ lastOp.calls # <<>>
    /\ lastOp.calls[1].ret.why = "already connected"
    /\ lastOp.calls[1].sid \notin Presences

(* ---------------------------------------------------------------------- *)
(* C7                                                                      *)
(* ---------------------------------------------------------------------- *)
\* C7: while connection c1 holds player p in game G a join of (G, p) by
\* another connection is refused as "already connected"; once the leave or
\* the disconnect of c1 has removed that presence, the same join succeeds.
C7_JoinableAfterLeave ==
    [][\A c1 \in Conns :
          (/\ lastOp'.op \in {"leave_game", "disconnect"}
           /\ RemoveCalls(lastOp') = {1}
           /\ handle_leave_game(c1) \/ handle_disconnect(c1)) =>
              LET g == lastOp'.calls[1].ret.game
                  p == lastOp'.calls[1].ret.player
              IN \A c2 \in Conns \ {c1} :
                    /\ join_player_to_session(active_sessions, session_to_game,
                                              g, p, c2).ret.why = "already connected"
                    /\ join_player_to_session(active_sessions', session_to_game',
                                              g, p, c2).ret.ok]_vars

\* a player has just left a session that still holds another player
C7_Witness ==
    /\ lastOp.op = "leave_game"
    /\ RemoveCalls(lastOp) = {1}
    /\ lastOp.calls[1].ret.game \in DOMAIN active_sessions
    /\ DOMAIN active_sessions[lastOp.calls[1].ret.game].connected_players # {}

(* ---------------------------------------------------------------------- *)
(* C8                                                                      *)
(* ---------------------------------------------------------------------- *)
\* C8: remove_player_from_session(c) for a joined player removes exactly that
\* presence and its index entry; for a c that hosts a session or is unknown
\* it returns none and changes neither the sessions nor the reverse index.
C8_LeaveOnlyRemovesPlayers ==
    [][\A c \in Conns :
          (lastOp'.op = "leave_game" /\ handle_leave_game(c)) =>
              LET ret == lastOp'.calls[1].ret IN
              /\ (c \in Hosts \/ c \notin Indexed) =>
                    ret.ok = FALSE /\ UNCHANGED <<active_sessions, session_to_game>>
              /\ ret.ok =>
                    /\ active_sessions' =
                          [active_sessions EXCEPT ![ret.game].connected_players = Remove(@, c)]
                    /\ c \notin DictKeys(session_to_game')
                    /\ \A d \in Indexed \ {c} :
                          DictGet(session_to_game', d) = DictGet(session_to_game, d)]_vars

(* ---------------------------------------------------------------------- *)
(* C9                                                                      *)
(* ---------------------------------------------------------------------- *)
\* C9: after cleanup_disconnected_sessions(live) no connection outside live
\* is in the reverse index, hosts a session or has a presence; sessions whose
\* host and players are all live are unchanged.
C9_ReconcileRemovesAllNonLive ==
    [][\A live \in SUBSET Conns :
          (lastOp'.op = "reconcile" /\ reconcile(live)) =>
              /\ \A c \in Conns \ live :
                    /\ c \notin DictKeys(session_to_game')
                    /\ \A g \in DOMAIN active_sessions' :
                          /\ active_sessions'[g].host_session_id # c
                          /\ c \notin DOMAIN active_sessions'[g].connected_players
              /\ \A g \in DOMAIN active_sessions :
                    (/\ active_sessions[g].host_session_id \in live
                     /\ DOMAIN active_sessions[g].connected_players \subseteq live) =>
                        /\ g \in DOMAIN active_sessions'
                        /\ active_sessions'[g] = active_sessions[g]]_vars

(* ---------------------------------------------------------------------- *)
(* C10                                                                     *)
(* ---------------------------------------------------------------------- *)
Succeeded(sid, op) ==
    threads[sid].pc = "idle" /\ threads[sid].op = op /\ threads[sid].ok

\* C10: handlers that run concurrently leave the registry as some serial
\* order of them would: no two connections both succeed in hosting the same
\* game, no two connections both succeed in joining a game with the same
\* player id, and no session holds a player id twice.
C10_RegistryOperationsExclusive ==
    /\ \A c, d \in Conns :
          (c # d /\ Succeeded(c, "host_game") /\ Succeeded(d, "host_game")) =>
              threads[c].game # threads[d].game
    /\ \A c, d \in Conns :
          (c # d /\ Succeeded(c, "join_game") /\ Succeeded(d, "join_game")) =>
              ~(threads[c].game = threads[d].game /\ threads[c].player = threads[d].player)
    /\ NoDuplicatePlayer

(* ---------------------------------------------------------------------- *)
(* C11                                                                     *)
(* ---------------------------------------------------------------------- *)
\* C11: in every reachable state every player's victoryPoints is at least 0,
\* whatever completions, un-completions and removals of objectives have run.
C11_VictoryPointsNonNegative ==
    \A p \in DOMAIN db.players : db.players[p] >= 0

\* a completed objective has been removed and its points taken back
C11_Witness ==
    /\ lastOp.op = "remove_player_objective"
    /\ lastOp.why = "removed"
    /\ lastOp.before > 0
    /\ db.players[lastOp.player] < lastOp.before

(* ---------------------------------------------------------------------- *)
(* C12                                                                     *)
(* ---------------------------------------------------------------------- *)
SlotRows(d, objective_type) == { s \in d.gamePublicObjectives : s.type = objective_type }

\* the slot rows of every stage: indices within 0..4, no index twice in a
\* stage, no objective in two rows, at most five rows
SlotsWellFormed ==
    /\ \A s \in db.gamePublicObjectives : s.slotIndex \in 0..(SlotsPerTier - 1)
    /\ \A s, t \in db.gamePublicObjectives :
          (s.type = t.type /\ s.slotIndex = t.slotIndex) => s = t
    /\ \A s, t \in db.gamePublicObjectives : s.objectiveKey = t.objectiveKey => s = t
    /\ \A ty \in PUBLIC_OBJECTIVE_TYPES : Cardinality(SlotRows(db, ty)) <= SlotsPerTier

\* a reveal whose transaction finds the five slots of the stage taken returns
\* "All ... Objectives are in Play" and leaves the store as it is
TierFullFails ==
    \A w \in Workers :
        (/\ reqs[w].pc = "read"
         /\ reqs[w].op = "add_player_objective"
         /\ reqs'[w].pc # "read"
         /\ get_game_public_objective(db, reqs[w].key) = {}
         /\ Cardinality(SlotRows(db, get_objective_definition(reqs[w].key).type)) = SlotsPerTier)
        => (/\ lastOp'.why = "All Stage Objectives are in Play"
            /\ lastOp'.key = reqs[w].key
            /\ reqs'[w].pc = "idle"
            /\ db' = db)

\* C12: in every reachable state, also when reveals run as concurrent
\* requests, the occupied slot indices of a stage are distinct and within
\* 0..4, an objective occupies at most one slot, and a reveal into a stage
\* with five occupied slots fails without changing the store.
C12_PublicSlots == []SlotsWellFormed /\ [][TierFullFails]_vars

\* a reveal has failed on a full stage
C12_Witness ==
    /\ lastOp.op = "add_player_objective"
    /\ lastOp.why = "All Stage Objectives are in Play"
    /\ Cardinality(SlotRows(db, "public_tier1")) = SlotsPerTier

(* ---------------------------------------------------------------------- *)
(* C13                                                                     *)
(* ---------------------------------------------------------------------- *)
FreeIndices(used_indices) == { i \in 0..(SlotsPerTier - 1) : i \notin used_indices }

LowestFree(used_indices) ==
    IF FreeIndices(used_indices) = {} THEN None
    ELSE CHOOSE i \in FreeIndices(used_indices) : \A j \in FreeIndices(used_indices) : i <= j

\* C13: a reveal that succeeds puts the objective into the lowest index of
\* 0..4 not occupied in the objective's own stage, whatever indices are
\* occupied (gaps included), and leaves the rows of the other stage as they
\* are; it fails as full only if its own stage has no free index.
C13_LowestFreeSlot ==
    [][ lastOp'.op = "add_player_objective" =>
          LET ty == get_objective_definition(lastOp'.key).type IN
          /\ lastOp'.why = "assigned" =>
                /\ \A used \in SUBSET (0..(SlotsPerTier - 1)) :
                      ScanSlots(used, 0) = LowestFree(used)
                /\ lastOp'.value = LowestFree(UsedIndices(db, ty))
                /\ lastOp'.value \in 0..(SlotsPerTier - 1)
                /\ db'.gamePublicObjectives = db.gamePublicObjectives \cup
                      {[objectiveKey |-> lastOp'.key, type |-> ty, slotIndex |-> lastOp'.value]}
                /\ \A other \in PUBLIC_OBJECTIVE_TYPES \ {ty} :
                      SlotRows(db', other) = SlotRows(db, other)
          /\ lastOp'.why = "All Stage Objectives are in Play" =>
                /\ FreeIndices(UsedIndices(db, ty)) = {}
                /\ db' = db
          /\ (lastOp'.why \notin {"assigned", "added"}) => db' = db
      ]_vars

\* a stage I objective went into slot 4, the only free one of its stage,
\* while slot 0 of stage II was occupied
C13_Witness ==
    /\ lastOp.op = "add_player_objective"
    /\ lastOp.why = "assigned"
    /\ lastOp.value = SlotsPerTier - 1
    /\ SlotRows(db, "public_tier2") # {}
    /\ Cardinality(SlotRows(db, "public_tier1")) = SlotsPerTier

(* ---------------------------------------------------------------------- *)
(* C14                                                                     *)
(* ---------------------------------------------------------------------- *)
\* every player of the game holds a row for every objective in a slot
SlotImpliesRows ==
    \A s \in db.gamePublicObjectives :
        \A p \in DOMAIN db.players : Owned(db, p, s.objectiveKey) # {}

\* a reveal that succeeds leaves an uncompleted row with every player
RevealGivesEveryPlayerARow ==
    (lastOp'.op = "add_player_objective" /\ lastOp'.why = "assigned") =>
        \A p \in DOMAIN db'.players :
            Owned(db', p, lastOp'.key) = {ObjectiveRow(p, lastOp'.key, FALSE)}

\* C14: after a reveal succeeds every player of the game, not only the
\* requester, has a row for the objective with isCompleted = false; and in
\* every reachable state an occupied public slot implies that every player
\* of the game has a row for its objective.
C14_EveryPlayerHasARow == []SlotImpliesRows /\ [][RevealGivesEveryPlayerARow]_vars

\* a reveal asked for by one player has left a row with another player
C14_Witness ==
    /\ lastOp.op = "add_player_objective"
    /\ lastOp.why = "assigned"
    /\ \E p \in DOMAIN db.players :
          p # lastOp.player /\ ObjectiveRow(p, lastOp.key, FALSE) \in db.playerObjectives

(* ---------------------------------------------------------------------- *)
(* C15                                                                     *)
(* ---------------------------------------------------------------------- *)
\* C15: an update that asks for the flag the row already has changes no row
\* and no total and returns the player's current total; a second
\* update(p, k, true) right after a first one returns the total the first
\* one returned, so the objective's points are counted once.
C15_SetCompletionIdempotent ==
    [][ lastOp'.op = "update_player_objective" =>
          /\ ObjectiveRow(lastOp'.player, lastOp'.key, lastOp'.flag) \in db.playerObjectives =>
                /\ db' = db
                /\ lastOp'.why = "unchanged"
                /\ lastOp'.value = db.players[lastOp'.player]
          /\ (/\ lastOp.op = "update_player_objective"
              /\ lastOp.why \in {"updated", "unchanged"}
              /\ lastOp.flag
              /\ lastOp'.flag
              /\ lastOp'.player = lastOp.player
              /\ lastOp'.key = lastOp.key) =>
                /\ db' = db
                /\ lastOp'.value = lastOp.value
      ]_vars

\* an objective has been completed and the same update was then sent again
C15_Witness ==
    /\ lastOp.op = "update_player_objective"
    /\ lastOp.why = "unchanged"
    /\ lastOp.flag
    /\ lastOp.value > 0
    /\ db.players[lastOp.player] = get_objective_definition(lastOp.key).victoryPoints

(* ---------------------------------------------------------------------- *)
(* C16                                                                     *)
(* ---------------------------------------------------------------------- *)
\* C16: an update that changes the flag moves the player's total by exactly
\* the objective's points: up when completing, down (not below zero) when
\* un-completing; the total returned is the total stored; no other player's
\* total and no other row changes; un-completing right after completing
\* gives the total from before the completion.
C16_SetCompletionAdjustsTotal ==
    [][ lastOp'.op = "update_player_objective" =>
          LET p == lastOp'.player
              k == lastOp'.key
              points == get_objective_definition(k).victoryPoints
              old == ObjectiveRow(p, k, ~lastOp'.flag)
              new == ObjectiveRow(p, k, lastOp'.flag)
          IN
          /\ old \in db.playerObjectives =>
                /\ lastOp'.why = "updated"
                /\ db'.players[p] =
                      IF lastOp'.flag THEN db.players[p] + points
                      ELSE IF db.players[p] < points THEN 0 ELSE db.players[p] - points
                /\ lastOp'.value = db'.players[p]
                /\ \A q \in (DOMAIN db.players) \ {p} : db'.players[q] = db.players[q]
                /\ db'.playerObjectives = (db.playerObjectives \ {old}) \cup {new}
                /\ db'.gamePublicObjectives = db.gamePublicObjectives
          /\ (/\ old \in db.playerObjectives
              /\ ~lastOp'.flag
              /\ lastOp.op = "update_player_objective"
              /\ lastOp.why = "updated"
              /\ lastOp.flag
              /\ lastOp.player = p
              /\ lastOp.key = k) =>
                db'.players[p] = lastOp.before
      ]_vars

\* a player has un-completed an objective while another player held points
C16_Witness ==
    /\ lastOp.op = "update_player_objective"
    /\ lastOp.why = "updated"
    /\ ~lastOp.flag
    /\ lastOp.before > 0
    /\ db.players[lastOp.player] =
          lastOp.before - get_objective_definition(lastOp.key).victoryPoints
    /\ \E q \in DOMAIN db.players : q # lastOp.player /\ db.players[q] > 0

(* ---------------------------------------------------------------------- *)
(* C17                                                                     *)
(* ---------------------------------------------------------------------- *)
\* the players holding a completed row for an objective
CompletedBy(d, objective_key) ==
    { r.playerId : r \in { x \in ObjectiveRows(d, objective_key) : x.isCompleted } }

\* C17: removing a public objective that is in play takes its points (not
\* below zero) from every player who had completed it, deletes every
\* player's row for it and its slot row, so that a later reveal can take the
\* freed index; for an objective that is not in play nothing changes.
C17_RemovePublicObjective ==
    [][ (/\ lastOp'.op = "remove_player_objective"
         /\ get_objective_definition(lastOp'.key).type \in PUBLIC_OBJECTIVE_TYPES) =>
          LET k == lastOp'.key
              points == get_objective_definition(k).victoryPoints
          IN
          IF get_game_public_objective(db, k) # {}
          THEN /\ get_game_public_objective(db', k) = {}
               /\ ObjectiveRows(db', k) = {}
               /\ \A p \in DOMAIN db.players :
                     db'.players[p] =
                        IF p \in CompletedBy(db, k) THEN SubClamped(db.players[p], points)
                        ELSE db.players[p]
               /\ (CHOOSE s \in get_game_public_objective(db, k) : TRUE).slotIndex
                     \notin UsedIndices(db', get_objective_definition(k).type)
          ELSE db' = db
      ]_vars

(* ---------------------------------------------------------------------- *)
(* C18                                                                     *)
(* ---------------------------------------------------------------------- *)
StageFull(d, objective_type) == ScanSlots(UsedIndices(d, objective_type), 0) = None

\* C18: a public objective goes from absent to in play to removed: a removal
\* asked for an objective in play succeeds, whoever holds or has completed
\* rows for it, so a full stage has a free slot again after it; and a slot
\* row disappears only through such a removal.
C18_RemovalAlwaysSucceeds ==
    [][ /\ (/\ lastOp'.op = "remove_player_objective"
            /\ get_game_public_objective(db, lastOp'.key) # {}
            /\ Owned(db, lastOp'.player, lastOp'.key) # {}) =>
              /\ lastOp'.why = "removed from game"
              /\ ~StageFull(db', get_objective_definition(lastOp'.key).type)
        /\ (\E s \in db.gamePublicObjectives : s \notin db'.gamePublicObjectives) =>
              lastOp'.op = "remove_player_objective"
      ]_vars

(* ---------------------------------------------------------------------- *)
(* C19                                                                     *)
(* ---------------------------------------------------------------------- *)
RECURSIVE SumPoints(_)
SumPoints(rows) ==
    IF rows = {} THEN 0
    ELSE LET r == CHOOSE x \in rows : TRUE IN
         get_objective_definition(r.objectiveKey).victoryPoints + SumPoints(rows \ {r})

\* the points of the objectives a player has completed
PointsOfCompleted(d, player_id) ==
    SumPoints({ r \in d.playerObjectives : r.playerId = player_id /\ r.isCompleted })

\* C19: concurrent updates of one player's objective take effect one after
\* another: at most one request is inside its transaction, the flag a request
\* has read is still the stored flag when it writes, and every total is the
\* sum of the points of the player's completed objectives, so concurrent
\* update(p, k, true) calls on an uncompleted objective add its points once.
C19_SetCompletionSerialised ==
    /\ \A v, w \in Workers : (v # w /\ InTx(reqs[v])) => ~InTx(reqs[w])
    /\ \A w \in Workers :
          (reqs[w].pc = "write" /\ reqs[w].op = "update_player_objective") =>
              ObjectiveRow(reqs[w].player, reqs[w].key, ~reqs[w].flag) \in db.playerObjectives
    /\ \A p \in DOMAIN db.players : db.players[p] = PointsOfCompleted(db, p)

\* two requests to complete the same objective of the same player are in
\* flight: one is about to write, the other waits for the write lock
C19_Witness ==
    \E v, w \in Workers :
        /\ v # w
        /\ reqs[w].pc = "write"
        /\ reqs[v].pc = "tx"
        /\ reqs[w].op = "update_player_objective"
        /\ reqs[v].op = "update_player_objective"
        /\ reqs[w].flag /\ reqs[v].flag
        /\ reqs[w].player = reqs[v].player
        /\ reqs[w].key = reqs[v].key

(* ---------------------------------------------------------------------- *)
(* C20                                                                     *)
(* ---------------------------------------------------------------------- *)
\* the step of worker w is the transaction of its restore request
Restores(w) == reqs[w].pc = "restore" /\ reqs'[w].pc = "idle"

\* C20: a restore request changes the store in its transaction only, and the
\* transaction either deletes the player's three fragment rows and inserts
\* one relic row the player did not hold, or leaves every row as it was; when
\* a fragment has gone since the validation, the request fails and the
\* player's other fragments stay.
C20_RestoreRelicAllOrNothing ==
    [][ /\ \A w \in Workers :
              (reqs[w].op = "restore_relic_from_fragments" /\ reqs'[w] # reqs[w] /\ ~Restores(w))
                  => db' = db
        /\ lastOp'.op = "restore_relic_from_fragments" /\ lastOp' # lastOp /\ db' = db
              => lastOp'.why # "restored"
        /\ \A w \in Workers :
              Restores(w) =>
                  LET p == reqs[w].player
                      fragments == { ExplorationRow(p, k) : k \in SeqRange(reqs[w].key) }
                      relic == ExplorationRow(p, reqs[w].seen)
                  IN
                  IF fragments \subseteq db.playerExplorationCards
                     /\ relic \notin db.playerExplorationCards
                  THEN /\ lastOp'.why = "restored"
                       /\ reqs[w].seen \in RelicKeys
                       /\ db'.playerExplorationCards =
                             (db.playerExplorationCards \ fragments) \cup {relic}
                  ELSE /\ lastOp'.why \in {"Selected relic fragments not available",
                                          "Unable to restore relic"}
                       /\ db' = db
      ]_vars

\* a restore has failed in its transaction because one of the three
\* fragments went after the validation; the other two are still held
C20_Witness ==
    /\ lastOp.op = "restore_relic_from_fragments"
    /\ lastOp.why = "Selected relic fragments not available"
    /\ Cardinality(OwnedCards(db, lastOp.player, SeqRange(lastOp.key))) = 2

(* ---------------------------------------------------------------------- *)
(* C21                                                                     *)
(* ---------------------------------------------------------------------- *)
\* the responses restore_relic_from_fragments gives before it looks for a relic
ValidationErrors ==
    { "Exactly three relic fragments are required", "Fragments must be distinct",
      "Selected relic fragments not found", "Only relic fragments can be restored",
      "Fragments must share a planet type. Frontier fragments are wild." }

\* three distinct keys, each held by the player, each a relic fragment, and
\* no two of them of different types unless one of the two is a frontier card
RestorableFragments(d, player_id, fragment_keys) ==
    /\ Len(fragment_keys) = 3
    /\ \A i, j \in DOMAIN fragment_keys : i # j => fragment_keys[i] # fragment_keys[j]
    /\ \A i \in DOMAIN fragment_keys :
          /\ ExplorationRow(player_id, fragment_keys[i]) \in d.playerExplorationCards
          /\ fragment_keys[i] \in FragmentKeys
    /\ \A i, j \in DOMAIN fragment_keys :
          \/ fragment_keys[i] = "x1"
          \/ fragment_keys[j] = "x1"
          \/ (fragment_keys[i] = "h1") = (fragment_keys[j] = "h1")

\* C21: a restore request ends with a validation error, the store unchanged,
\* exactly when its keys are not three distinct relic fragments of the player
\* that agree in type apart from frontier fragments; and it ends with
\* "No relics remaining to restore", the store unchanged, exactly when the
\* player holds every relic at the time the relic is looked for.
C21_RestoreRelicValidation ==
    [][ /\ \A w \in Workers :
              (reqs[w].pc = "idle" /\ reqs'[w].pc = "relics")
                  => /\ RestorableFragments(db, reqs'[w].player, reqs'[w].key)
                     /\ db' = db
        /\ (ops' # ops /\ reqs' = reqs /\ lastOp'.op = "restore_relic_from_fragments")
              => /\ lastOp'.why \in ValidationErrors
                 /\ ~RestorableFragments(db, lastOp'.player, lastOp'.key)
                 /\ db' = db
        /\ \A w \in Workers :
              (reqs[w].pc = "relics" /\ reqs'[w] # reqs[w])
                  => /\ db' = db
                     /\ (reqs'[w].pc = "idle") =
                            (\A k \in RelicKeys :
                                 ExplorationRow(reqs[w].player, k) \in db.playerExplorationCards)
                     /\ reqs'[w].pc = "idle"
                            => lastOp'.why = "No relics remaining to restore"
                     /\ reqs'[w].pc # "idle"
                            => /\ reqs'[w].pc = "restore"
                               /\ ExplorationRow(reqs[w].player, reqs'[w].seen)
                                      \notin db.playerExplorationCards
      ]_vars

\* a restore has ended for want of a relic while the player holds the three
\* fragments named, one of them a frontier fragment
C21_Witness ==
    /\ lastOp.op = "restore_relic_from_fragments"
    /\ lastOp.why = "No relics remaining to restore"
    /\ lastOp.key = <<"f1", "f2", "x1">>
    /\ Cardinality(OwnedCards(db, lastOp.player, SeqRange(lastOp.key))) = 3

(* ---------------------------------------------------------------------- *)
(* C22                                                                     *)
(* ---------------------------------------------------------------------- *)
\* no table holds two rows for one player and one key
UniqueOwnership ==
    /\ \A r, s \in db.playerActions :
          r.playerId = s.playerId /\ r.actionKey = s.actionKey => r = s
    /\ \A r, s \in db.playerPlanets :
          r.playerId = s.playerId /\ r.planetKey = s.planetKey => r = s
    /\ \A r, s \in db.playerExplorationCards :
          r.playerId = s.playerId /\ r.explorationKey = s.explorationKey => r = s
    /\ \A r, s \in db.playerObjectives :
          r.playerId = s.playerId /\ r.objectiveKey = s.objectiveKey => r = s

\* an add of an action card or a planet that follows an add of the same key
\* of the catalog for the same player answers "already owned", and the
\* player has one row for the key
SecondAddFails ==
    (/\ ops' # ops
     /\ lastOp.op \in {"add_player_action", "add_player_planet"}
     /\ lastOp'.op = lastOp.op
     /\ lastOp'.player = lastOp.player
     /\ lastOp'.key = lastOp.key
     /\ lastOp.key \in ActionKeys \cup PlanetKeys)
        => /\ lastOp'.why \in {"Action card already owned", "Planet already owned"}
           /\ db' = db
           /\ Cardinality({ r \in db'.playerActions :
                              r.playerId = lastOp'.player /\ r.actionKey = lastOp'.key })
              + Cardinality({ r \in db'.playerPlanets :
                                r.playerId = lastOp'.player /\ r.planetKey = lastOp'.key }) = 1

\* C22: a player never has two rows for one key in a table, and the second
\* of two adds of the same key for the same player fails as already owned
\* and leaves the one row.
C22_OwnershipUnique == []UniqueOwnership /\ [][SecondAddFails]_vars

\* player 2, who held nothing, has been refused a planet just added
C22_Witness ==
    /\ ops = 2
    /\ lastOp.op = "add_player_planet"
    /\ lastOp.player = 2
    /\ lastOp.why = "Planet already owned"
    /\ db.playerPlanets \ SettledStore.playerPlanets = {PlanetRow(2, lastOp.key, FALSE)}

(* ---------------------------------------------------------------------- *)
(* C23                                                                     *)
(* ---------------------------------------------------------------------- *)
\* a removal of an action card, a planet or an objective that is not public
\* deletes the one row of the player and the key, nothing else (the total of
\* the player apart, which loses the points of a completed objective), and
\* answers that nothing was assigned, the store unchanged, when there is no row
RemovalExact ==
    LET p == lastOp'.player
        k == lastOp'.key
        actions == { r \in db.playerActions : r.playerId = p /\ r.actionKey = k }
        planets == { r \in db.playerPlanets : r.playerId = p /\ r.planetKey = k }
        objectives == { r \in db.playerObjectives : r.playerId = p /\ r.objectiveKey = k }
    IN
    /\ (ops' # ops /\ lastOp'.op = "remove_player_action")
          => IF actions = {}
             THEN lastOp'.why = "Action card not assigned to player" /\ db' = db
             ELSE /\ lastOp'.why = "removed"
                  /\ Cardinality(actions) = 1
                  /\ db' = [db EXCEPT !.playerActions = @ \ actions]
    /\ (ops' # ops /\ lastOp'.op = "remove_player_planet")
          => IF planets = {}
             THEN lastOp'.why = "Planet not assigned to player" /\ db' = db
             ELSE /\ lastOp'.why = "removed"
                  /\ Cardinality(planets) = 1
                  /\ db' = [db EXCEPT !.playerPlanets = @ \ planets]
    /\ (ops' # ops /\ lastOp'.op = "remove_player_objective" /\ k \in SecretKeys)
          => IF objectives = {}
             THEN lastOp'.why = "not assigned" /\ db' = db
             ELSE /\ lastOp'.why = "removed"
                  /\ Cardinality(objectives) = 1
                  /\ db'.playerObjectives = db.playerObjectives \ objectives
                  /\ \A f \in (DOMAIN db) \ {"playerObjectives", "players"} : db'[f] = db[f]
                  /\ \A q \in PlayerIds \ {p} : db'.players[q] = db.players[q]
                  /\ db'.players[p] =
                        IF \E r \in objectives : r.isCompleted
                        THEN db.players[p] - get_objective_definition(k).victoryPoints
                        ELSE db.players[p]

\* the key removed can be added again at once
AddAfterRemoval ==
    (/\ ops' # ops
     /\ \/ lastOp.op = "remove_player_action" /\ lastOp'.op = "add_player_action"
        \/ lastOp.op = "remove_player_planet" /\ lastOp'.op = "add_player_planet"
        \/ lastOp.op = "remove_player_objective" /\ lastOp'.op = "add_player_objective"
     /\ lastOp.why = "removed"
     /\ lastOp'.player = lastOp.player
     /\ lastOp'.key = lastOp.key)
        => /\ lastOp'.why = "added"
           /\ \/ ActionRow(lastOp'.player, lastOp'.key, FALSE) \in db'.playerActions
              \/ PlanetRow(lastOp'.player, lastOp'.key, FALSE) \in db'.playerPlanets
              \/ ObjectiveRow(lastOp'.player, lastOp'.key, FALSE) \in db'.playerObjectives

\* C23: removing an action card, a planet or a secret objective deletes the
\* one row of that player and key and answers "removed", every other row as
\* it was; with no such row it answers "not assigned" and changes nothing;
\* and an add of the key removed succeeds.
C23_RemoveOwnership == [][RemovalExact /\ AddAfterRemoval]_vars

\* player 1 has had the action card of the settled game removed and added again
C23_Witness ==
    /\ ops = 2
    /\ lastOp.op = "add_player_action"
    /\ lastOp.player = 1
    /\ lastOp.key = "ac1"
    /\ lastOp.why = "added"
    /\ db = SettledStore

(* ---------------------------------------------------------------------- *)
(* C24                                                                     *)
(* ---------------------------------------------------------------------- *)
\* the routes that set the exhausted flag of an action card, a planet or an
\* exploration card
ExhaustOps ==
    {"update_player_action_state", "update_player_planet_state", "update_player_exploration"}

\* the rows of the table a flag request writes that belong to its player and key
FlagRows(d, op, player_id, key) ==
    IF op = "update_player_action_state"
    THEN { r \in d.playerActions : r.playerId = player_id /\ r.actionKey = key }
    ELSE IF op = "update_player_planet_state"
    THEN { r \in d.playerPlanets : r.playerId = player_id /\ r.planetKey = key }
    ELSE { r \in d.playerExplorationCards : r.playerId = player_id /\ r.explorationKey = key }

\* the rows of every table with the flag of the rows left out
Ownership(d) ==
    [actions |-> { <<r.playerId, r.actionKey>> : r \in d.playerActions },
     planets |-> { <<r.playerId, r.planetKey>> : r \in d.playerPlanets },
     cards |-> { <<r.playerId, r.explorationKey>> : r \in d.playerExplorationCards }]

\* C24: a flag request on a row the player has sets the flag of that row to
\* the value sent and changes no other row and no player's set of cards; the
\* same request sent again gives the same response and leaves the store as
\* it is; on a key the player does not hold it answers "not assigned" and
\* changes nothing.
C24_SetExhausted ==
    [][ (ops' # ops /\ lastOp'.op \in ExhaustOps) =>
            LET op == lastOp'.op
                p == lastOp'.player
                k == lastOp'.key
                rows == FlagRows(db, op, p, k)
            IN
            /\ IF rows = {}
               THEN /\ lastOp'.why \in {"Action card not assigned to player",
                                        "Planet not assigned to player",
                                        "Exploration card not assigned to player"}
                    /\ db' = db
               ELSE /\ lastOp'.why = "updated"
                    /\ \A r \in FlagRows(db', op, p, k) : r.isExhausted = lastOp'.flag
                    /\ Ownership(db') = Ownership(db)
                    /\ LET f == IF op = "update_player_action_state" THEN "playerActions"
                                ELSE IF op = "update_player_planet_state" THEN "playerPlanets"
                                ELSE "playerExplorationCards"
                       IN /\ db'[f] \ FlagRows(db', op, p, k) = db[f] \ rows
                          /\ \A g \in (DOMAIN db) \ {f} : db'[g] = db[g]
            /\ (lastOp.op = op /\ lastOp.player = p /\ lastOp.key = k
                /\ lastOp.flag = lastOp'.flag)
                  => db' = db /\ lastOp'.why = lastOp.why
      ]_vars

\* the hazardous planet of player 1, and no other row, has been exhausted
C24_Witness ==
    /\ ops = 2
    /\ lastOp.op = "update_player_planet_state"
    /\ lastOp.why = "updated"
    /\ lastOp.flag
    /\ db = [SettledStore EXCEPT !.playerPlanets =
                {PlanetRow(1, "p1", FALSE), PlanetRow(1, "p2", TRUE)}]

(* ---------------------------------------------------------------------- *)
(* C25                                                                     *)
(* ---------------------------------------------------------------------- *)
\* the keys a draw may return: action cards the player does not hold; public
\* objectives of the stage that are in no slot; secret objectives the player
\* does not hold
Eligible(d, op, player_id, kind) ==
    IF op = "draw_random_action"
    THEN { k \in ActionKeys : ~\E r \in d.playerActions : r.playerId = player_id /\ r.actionKey = k }
    ELSE IF kind \in PUBLIC_OBJECTIVE_TYPES
    THEN { k \in ObjectiveKeys : /\ get_objective_definition(k).type = kind
                                 /\ ~\E s \in d.gamePublicObjectives : s.objectiveKey = k }
    ELSE { k \in ObjectiveKeys : /\ get_objective_definition(k).type = kind
                                 /\ ~\E r \in d.playerObjectives :
                                        r.playerId = player_id /\ r.objectiveKey = k }

\* the player has a row for the key in the table of the draw
HoldsDrawn(d, op, player_id, k) ==
    IF op = "draw_random_action"
    THEN \E r \in d.playerActions : r.playerId = player_id /\ r.actionKey = k
    ELSE \E r \in d.playerObjectives : r.playerId = player_id /\ r.objectiveKey = k

DrawOps == {"draw_random_action", "draw_player_objective"}

DrawSucceeded == {"drawn", "assigned", "added"}

PoolExhausted == {"No action cards available to draw", "No objectives of this type remain"}

\* a draw of a valid kind answers that the pool is exhausted exactly when no
\* key is eligible, and then changes nothing; a draw that succeeds returns an
\* eligible key
DrawsFromEligible ==
    (ops' # ops /\ lastOp'.op \in DrawOps /\ lastOp'.why # "Objective type is invalid") =>
        LET eligible == Eligible(db, lastOp'.op, lastOp'.player, lastOp'.key) IN
        /\ (eligible = {}) = (lastOp'.why \in PoolExhausted)
        /\ lastOp'.why \in PoolExhausted => db' = db
        /\ lastOp'.why \in DrawSucceeded => lastOp'.value \in eligible

\* the claim as stated: every draw that succeeds leaves the player with a row
\* for the key returned
C25_DrawAddsOwnership ==
    [][ /\ DrawsFromEligible
        /\ (ops' # ops /\ lastOp'.op \in DrawOps /\ lastOp'.why \in DrawSucceeded)
              => HoldsDrawn(db', lastOp'.op, lastOp'.player, lastOp'.value)
      ]_vars

\* C25 (amended): a draw returns a key that was eligible and fails, the store
\* unchanged, exactly when none is; a draw of an objective leaves the player
\* with a row for the objective returned, a draw of an action card writes
\* nothing and the player holds no row for the card returned.
C25_DrawObjectiveAddsActionSelects ==
    [][ /\ DrawsFromEligible
        /\ (ops' # ops /\ lastOp'.op = "draw_player_objective" /\ lastOp'.why \in DrawSucceeded)
              => HoldsDrawn(db', lastOp'.op, lastOp'.player, lastOp'.value)
        /\ (ops' # ops /\ lastOp'.op = "draw_random_action")
              => /\ db' = db
                 /\ lastOp'.why = "drawn"
                        => ~HoldsDrawn(db', lastOp'.op, lastOp'.player, lastOp'.value)
      ]_vars

\* an action card has been drawn for a player who has no row for it
C25_Witness ==
    /\ lastOp.op = "draw_random_action"
    /\ lastOp.why = "drawn"
    /\ ~HoldsDrawn(db, lastOp.op, lastOp.player, lastOp.value)

(* ---------------------------------------------------------------------- *)
(* C26                                                                     *)
(* ---------------------------------------------------------------------- *)
\* the player has a row for the planet
OwnsPlanet(d, player_id, planet_key) ==
    \E r \in d.playerPlanets : r.playerId = player_id /\ r.planetKey = planet_key

C27_AttachmentsNeedPlanet ==
    \A a \in db.planetAttachments : OwnsPlanet(db, a.playerId, a.planetKey)

(* ---------------------------------------------------------------------- *)
(* C28                                                                     *)
(* ---------------------------------------------------------------------- *)
\* C28: an exploration of a planet the player does not hold, or one for
\* which no card of the planet's type is left (every fragment and action
\* card of the type held by the player, every attach card of the type on the
\* planet), fails and leaves the store.  Otherwise the card drawn is of the
\* planet's type and was not held, or not on the planet; an attach card adds
\* the one attachment row, a relic fragment the one ownership row, an action
\* card nothing.
C28_ExplorePlanet ==
    [][ (ops' # ops /\ lastOp'.op = "explore_planet") =>
            LET p == lastOp'.player
                planet == lastOp'.key
                held(k) == \E r \in db.playerExplorationCards :
                               r.playerId = p /\ r.explorationKey = k
                attached(k) == AttachmentRow(p, planet, k) \in db.planetAttachments
                left == { k \in ExplorationKeys :
                            /\ get_exploration_definition(k).type = get_planet_definition(planet).type
                            /\ IF k \in AttachKeys THEN ~attached(k) ELSE ~held(k) }
                drawn == lastOp'.value
            IN
            IF ~OwnsPlanet(db, p, planet)
            THEN lastOp'.why = "Planet not assigned to player" /\ db' = db
            ELSE IF left = {}
            THEN lastOp'.why = "No exploration cards remaining for this planet" /\ db' = db
            ELSE /\ drawn \in left
                 /\ lastOp'.why = IF drawn \in AttachKeys THEN "attachment"
                                  ELSE IF drawn \in FragmentKeys THEN "relic_fragment"
                                  ELSE "action"
                 /\ db' = IF drawn \in AttachKeys
                          THEN [db EXCEPT !.planetAttachments = @ \cup {AttachmentRow(p, planet, drawn)}]
                          ELSE IF drawn \in FragmentKeys
                          THEN [db EXCEPT !.playerExplorationCards = @ \cup {ExplorationRow(p, drawn)}]
                          ELSE db
                 /\ drawn \notin ExploreActionKeys => db' # db
      ]_vars

\* an exploration of the cultural planet has found a relic fragment, which
\* the player now holds
C28_Witness ==
    /\ lastOp.op = "explore_planet"
    /\ lastOp.key = "p1"
    /\ lastOp.why = "relic_fragment"
    /\ ExplorationRow(lastOp.player, lastOp.value) \in db.playerExplorationCards

(* ---------------------------------------------------------------------- *)
(* C29                                                                     *)
(* ---------------------------------------------------------------------- *)
\* the return points at which an objective is not added, not revealed or not
\* updated for a reason the caller is told
Refusals ==
    { "Objective not found", "Objective already assigned", "not assigned",
      "Objective already in play", "Objective is not a public objective",
      "All Stage Objectives are in Play" }

\* on the store as it is, a call that names a key the catalog does not
\* have, or asks for a secret objective to be revealed, ends at the refusal
\* for it and returns the store it was given
RefusedCallsLeaveStore ==
    \A p \in PlayerIds :
        /\ \A k \in SecretKeys :
               assign_public_objective_to_game(db, p, k) =
                   Out(db, "Objective is not a public objective", None)
        /\ assign_public_objective_to_game(db, p, "zz") = Out(db, "Objective not found", None)
        /\ add_player_objective(db, p, "zz") = Out(db, "Objective not found", None)
        /\ \A v \in BOOLEAN :
               update_player_objective_state(db, p, "zz", v) = Out(db, "Objective not found", None)

\* C29: a request to add an objective that is refused as not found, already
\* assigned, already in play, not public or for want of a slot, and a
\* request to set a completion that is refused as not assigned, leave the
\* rows of every table and every player's total as they were.
C29_RefusalsChangeNothing ==
    /\ []RefusedCallsLeaveStore
    /\ [][ (/\ ops' # ops
            /\ lastOp'.op \in {"add_player_objective", "update_player_objective"}
            /\ lastOp'.why \in Refusals) => db' = db ]_vars

\* a sixth stage I objective has been refused with the five slots taken
C29_Witness ==
    /\ lastOp.op = "add_player_objective"
    /\ lastOp.why = "All Stage Objectives are in Play"
    /\ Cardinality({ s \in db.gamePublicObjectives : s.type = "public_tier1" }) = SlotsPerTier
    /\ \A s \in db.gamePublicObjectives : s.objectiveKey # lastOp.key

(* ---------------------------------------------------------------------- *)
(* C30: a store failure inside a ledger transaction                        *)
(* ---------------------------------------------------------------------- *)
\* the store the request's ledger function leaves when nothing fails and no
\* other request runs, computed by the function as a whole
WholeTransaction(d, r) ==
    CASE r.op = "add_player_objective" -> assign_public_objective_to_game(d, r.player, r.key).db
      [] r.op = "update_player_objective" ->
            update_player_objective_state(d, r.player, r.key, r.flag).db
      [] r.op = "remove_player_objective" -> remove_player_objective(d, r.player, r.key).db
      [] r.op = "restore_relic_from_fragments" ->
            RestoreTransaction(d, r.player, r.key, r.seen.pick).db

\* C30: when the store raises a failure at any point inside a ledger
\* transaction (assigning a public objective, setting a completion flag,
\* removing a public objective, removing an objective, restoring a relic),
\* the committed store after the operation is the store before it; and in
\* every step the committed store either stays as it is or takes all the
\* writes of one transaction, so that no state with only some of a
\* transaction's writes is ever visible.
C30_FailureRollsBack ==
    [][ /\ \A w \in Workers :
              (reqs[w].pc = "write" /\ reqs'[w].pc = "idle" /\ lastOp'.why # "committed")
                  => db' = db
        /\ \/ db' = db
           \/ \E w \in Workers :
                 /\ reqs[w].pc = "write"
                 /\ reqs'[w].pc = "idle"
                 /\ lastOp'.why = "committed"
                 /\ db' = WholeTransaction(db, reqs[w]) ]_vars

\* the store has failed after the slot row of a reveal was inserted and
\* before the last player's row was: the objective is in no slot and no
\* player holds a row for it
C30_Witness ==
    /\ lastOp.op = "add_player_objective"
    /\ lastOp.why = "Database operation failed"
    /\ lastOp.value >= 1
    /\ lastOp.value <= MaxPlayerIds
    /\ get_game_public_objective(db, lastOp.key) = {}
    /\ ObjectiveRows(db, lastOp.key) = {}

(* ---------------------------------------------------------------------- *)
(* C31: the write lock is released on every exit path                      *)
(* ---------------------------------------------------------------------- *)
\* C31: every ledger transaction gives up the game's write lock however it
\* ends (commit, the code's own rollback, a store failure, an exception that
\* is no store failure), so no sequence of requests blocks the store: again
\* and again the lock is free and every request entered has come to its
\* end, whether it held the lock, waited for it, or came after another one.
C31_LockAlwaysReleased ==
    []<>(\A w \in Workers : reqs[w].pc = "idle")

\* the last transaction to end was left by an exception that is no store
\* failure, and another request holds the write lock after it
C31_Witness ==
    /\ lastOp.op = "remove_player_objective"
    /\ lastOp.why = "AttributeError"
    /\ \E w \in Workers : reqs[w].pc = "write"

(* ---------------------------------------------------------------------- *)
(* C32: the write lock is taken before the values a write depends on are   *)
(* read                                                                    *)
(* ---------------------------------------------------------------------- *)
\* C32: every read-modify-write operation of the ledger takes the game's
\* write lock before it reads what its writes depend on and keeps it through
\* the write, so that no other writer changes those values in between: while
\* a relic restoration stands between its reads and its transaction, the
\* fragments it has validated are still the player's and the relic it has
\* picked is still one the player does not hold.
C32_NoWriterBetweenReadAndWrite ==
    \A w \in Workers :
        /\ reqs[w].pc \in {"relics", "restore"} =>
              ValidateFragments(db, reqs[w].player, reqs[w].key) = "valid"
        /\ reqs[w].pc = "restore" => reqs[w].seen \in AvailableRelics(db, reqs[w].player)

(* ---------------------------------------------------------------------- *)
(* C33: what a disconnect does                                             *)
(* ---------------------------------------------------------------------- *)
\* C33: when a connection's disconnect is handled, a connection that hosts an
\* active session has that session removed and session_ended sent to its
\* room; a connection that has only joined has its presence removed, nothing
\* else, and player_left sent; a connection in no session causes no
\* broadcast and no change of the registry.
C33_Disconnect ==
    [][ \A sid \in Conns :
          (connections[sid] = "live" /\ connections'[sid] = "gone") =>
            LET hosted == { g \in DOMAIN active_sessions :
                                active_sessions[g].host_session_id = sid }
                joined == { g \in DOMAIN active_sessions :
                                sid \in DOMAIN active_sessions[g].connected_players }
            IN
            IF hosted # {}
            THEN /\ \A g \in hosted : g \notin DOMAIN active_sessions'
                 /\ \A g \in hosted :
                       \E i \in StopCalls(lastOp') : lastOp'.calls[i].ret.game = g
            ELSE IF joined # {}
            THEN /\ active_sessions' =
                        [g \in DOMAIN active_sessions |->
                            IF g \in joined
                            THEN [active_sessions[g] EXCEPT
                                        !.connected_players = Remove(@, sid)]
                            ELSE active_sessions[g]]
                 /\ StopCalls(lastOp') = {}
                 /\ \A g \in joined :
                       \E i \in RemoveCalls(lastOp') : lastOp'.calls[i].ret.game = g
            ELSE /\ active_sessions' = active_sessions
                 /\ session_to_game' = session_to_game
                 /\ StopCalls(lastOp') = {}
                 /\ RemoveCalls(lastOp') = {} ]_vars

(* ---------------------------------------------------------------------- *)
(* C34: creating a game                                                    *)
(* ---------------------------------------------------------------------- *)
\* C34: creating a game whose store exists fails with "already exists" and
\* leaves the store as it is; creating one whose store does not exist gives
\* a store with one player record per player supplied, each with
\* victoryPoints 0; and a creation that fails leaves no store behind.
C34_CreateGame ==
    [][ (ops' # ops /\ lastOp'.op = "create_game_file") =>
          LET ret == lastOp'.calls[1].ret
              safe == SafeGameName(ret.game)
          IN
          /\ (safe \in stores /\ Strip(ret.game) # <<>> /\ ret.player # <<>>) =>
                /\ ret.why = "Game with this name already exists"
                /\ stores' = stores
                /\ db' = db
          /\ ret.ok =>
                /\ safe \notin stores
                /\ stores' = stores \cup {safe}
                /\ Cardinality(DOMAIN db'.players) = Len(ret.player)
                /\ \A p \in DOMAIN db'.players : db'.players[p] = 0
          /\ ~ret.ok => stores' = stores ]_vars

(* ---------------------------------------------------------------------- *)
(* C35: the reverse index points at live memberships only                  *)
(* ---------------------------------------------------------------------- *)
\* C35: every entry conn -> G of the reverse index names an active session G
\* of which conn is the host or a joined player; no entry points to a
\* session that is gone or that does not hold the connection.
C35_IndexEntriesAreMembers ==
    \A i \in DOMAIN session_to_game :
        LET sid == session_to_game[i].sid
            game_name == session_to_game[i].game
        IN
        /\ game_name \in DOMAIN active_sessions
        /\ \/ active_sessions[game_name].host_session_id = sid
           \/ sid \in DOMAIN active_sessions[game_name].connected_players

(* ---------------------------------------------------------------------- *)
(* C36: every member of a session is in the reverse index                  *)
(* ---------------------------------------------------------------------- *)
\* C36: the host connection and every joined player connection of an active
\* session are mapped by the reverse index to that session's game name, so
\* that a connection is a member of at most one session.
C36_MembersAreIndexed ==
    \A game_name \in DOMAIN active_sessions :
        /\ DictGet(session_to_game, active_sessions[game_name].host_session_id) = game_name
        /\ \A conn \in DOMAIN active_sessions[game_name].connected_players :
              DictGet(session_to_game, conn) = game_name

(* ---------------------------------------------------------------------- *)
(* C37: a player's total is the sum of the completed objectives            *)
(* ---------------------------------------------------------------------- *)
\* C37: from a game in which nobody has scored, whatever completion flags are
\* set and cleared and whatever objectives are removed, every player's
\* victoryPoints is the sum of the point values of the objectives recorded
\* as completed for that player.
C37_TotalIsSumOfCompleted ==
    \A p \in DOMAIN db.players : db.players[p] = PointsOfCompleted(db, p)

\* a player had scored an objective and has had it removed: the total is a
\* point lower than before the removal
C37_Witness ==
    /\ lastOp.op = "remove_player_objective"
    /\ lastOp.why = "removed"
    /\ lastOp.before >= 1
    /\ TotalOf(db, lastOp.player) = lastOp.before - 1

(* ---------------------------------------------------------------------- *)
(* C38: rows for public objectives exist only while the objective is in    *)
(* play                                                                    *)
(* ---------------------------------------------------------------------- *)
\* C38: in every reachable state every row of playerObjectives whose
\* objective is of a public stage has a row of gamePublicObjectives for the
\* same objective, whichever objectives were added, drawn and removed.
C38_PublicRowsHaveSlot ==
    \A r \in db.playerObjectives :
        get_objective_definition(r.objectiveKey).type \in PUBLIC_OBJECTIVE_TYPES =>
            get_game_public_objective(db, r.objectiveKey) # {}

\* a stage II objective has been drawn: it takes a slot and every player
\* holds a row for it
C38_Witness ==
    /\ lastOp.op = "draw_player_objective"
    /\ lastOp.key = "public_tier2"
    /\ lastOp.why = "assigned"
    /\ get_game_public_objective(db, lastOp.value) # {}
    /\ \A p \in PlayerIds : Owned(db, p, lastOp.value) # {}

(* ---------------------------------------------------------------------- *)
(* C39: concurrent adds of one card to one player                          *)
(* ---------------------------------------------------------------------- *)
\* the rows of playerActions for the pair
RowsOf(d, player_id, action_key) ==
    { x \in d.playerActions : x.playerId = player_id /\ x.actionKey = action_key }

\* C39: when several requests add the same action card to the same player,
\* with the check for the row and its insertion being separate accesses to
\* the store, the table never holds more than one row for the pair; a
\* request answers with the new card only when it has inserted the pair's
\* one row, and every other request answers with a failure and leaves the
\* store as it is.
C39_ConcurrentAddsOneRow ==
    /\ [](\A p \in PlayerIds, k \in ActionKeys : Cardinality(RowsOf(db, p, k)) <= 1)
    /\ [][ \A w \in Workers :
             (reqs[w].op = "add_player_action" /\ reqs[w].pc # "idle" /\ reqs'[w].pc = "idle") =>
                IF lastOp'.why = "added"
                THEN /\ RowsOf(db, reqs[w].player, reqs[w].key) = {}
                     /\ Cardinality(RowsOf(db', reqs[w].player, reqs[w].key)) = 1
                     /\ \A g \in DOMAIN db : g # "playerActions" => db'[g] = db[g]
                ELSE /\ lastOp'.why \in {"Action card already owned",
                                         "Unable to add action card"}
                     /\ RowsOf(db, reqs[w].player, reqs[w].key) # {}
                     /\ db' = db ]_vars

\* two requests for the same pair had both found no row; one has inserted
\* it and the other's INSERT has been refused by the unique index
C39_Witness ==
    /\ lastOp.op = "add_player_action"
    /\ lastOp.why = "Unable to add action card"
    /\ Cardinality(RowsOf(db, lastOp.player, lastOp.key)) = 1

====
